---- MODULE Spec2Model ----
(***************************************************************************)
(* Vikunja Flow plugin: the profile store (profiles.py), the TTL list      *)
(* cache (cache.py), the command parser (parsers.py), the API client       *)
(* (vikunja_client.py) and the command router (router.py).                 *)
(*                                                                         *)
(* Python values are modelled as follows.  An Optional[T] is a sequence:   *)
(* None is <<>> and a value v is <<v>>.  A dict is a sequence of           *)
(* [key, val] records in insertion order (Python dicts keep it, and        *)
(* remove_profile reads it).  Strings are TLA+ strings, read character by  *)
(* character with Len and SubSeq.                                          *)
(***************************************************************************)
EXTENDS Integers, Sequences, FiniteSets, TLC

VARIABLES
    profiles,   \* ProfilesStore._state["profiles"]
    active,     \* ProfilesStore._state["active"]
    secrets,    \* InMemorySecretBackend._store
    disk,       \* the JSON document last written by ProfilesStore._persist
    cache,      \* TTLCache._store of CommandRouter._list_cache
    now,        \* time.time()
    last,       \* the last operation called, its arguments and its outcome
    hist,       \* per cache key, the time and value of the last set not yet popped;
                \* under Spec, per profile, the time and lists of the last fetch of a
                \* lists command with no login or add for the profile since;
                \* under SpecFetch, the [name, value] pairs: the lists every
                \* get_lists call gave for a profile name while its token
                \* was not cancelled
    _active_token,  \* VikunjaFlowPlugin._active_token: the index in cancel_tokens of a token, or None
    cancel_tokens,     \* the CancelToken objects created so far, each with its _cancelled flag
    threads     \* per host thread, where it is in VikunjaFlowPlugin.query and its local token

vars == <<profiles, active, secrets, disk, cache, now, last, hist,
          _active_token, cancel_tokens, threads>>

-----------------------------------------------------------------------------
(* Optional values and dicts *)

None == <<>>

Some(v) == <<v>>

IsNone(o) == o = <<>>

\* dict.get(key): Some(value) or None
DictGet(d, k) ==
    IF \E i \in 1..Len(d) : d[i].key = k
    THEN Some(d[CHOOSE i \in 1..Len(d) : d[i].key = k].val)
    ELSE None

DictHas(d, k) == \E i \in 1..Len(d) : d[i].key = k

\* d[key] = value: an existing key keeps its position, a new one goes last
DictPut(d, k, v) ==
    IF DictHas(d, k)
    THEN [i \in 1..Len(d) |-> IF d[i].key = k THEN [key |-> k, val |-> v] ELSE d[i]]
    ELSE Append(d, [key |-> k, val |-> v])

\* d.pop(key, None) / del d[key]
DictDel(d, k) == SelectSeq(d, LAMBDA e : e.key # k)

DictKeys(d) == {d[i].key : i \in 1..Len(d)}

\* next(iter(d), None)
DictFirstKey(d) == IF Len(d) = 0 THEN None ELSE Some(d[1].key)

\* a method from the point where it has computed v: the rest of it, K, is
\* given v as a local
Bind(v, K(_)) == K(v)

-----------------------------------------------------------------------------
(* Strings *)

CharAt(s, i) == SubSeq(s, i, i)

\* str.rstrip("/")
RECURSIVE RStripSlash(_)
RStripSlash(s) ==
    IF Len(s) > 0 /\ CharAt(s, Len(s)) = "/"
    THEN RStripSlash(SubSeq(s, 1, Len(s) - 1))
    ELSE s

\* str.isspace() of one character
IsSpace(c) == c \in {" ", "\t", "\n"}

\* str.strip()
Strip(s) ==
    IF \A j \in 1..Len(s) : IsSpace(CharAt(s, j)) THEN ""
    ELSE LET first == CHOOSE j \in 1..Len(s) :
                         ~IsSpace(CharAt(s, j)) /\ \A k \in 1..(j - 1) : IsSpace(CharAt(s, k))
             final == CHOOSE j \in 1..Len(s) :
                         ~IsSpace(CharAt(s, j)) /\ \A k \in (j + 1)..Len(s) : IsSpace(CharAt(s, k))
         IN  SubSeq(s, first, final)

UpperChars == "ABCDEFGHIJKLMNOPQRSTUVWXYZ"

LowerChars == "abcdefghijklmnopqrstuvwxyz"

LowerChar(c) ==
    IF \E i \in 1..Len(UpperChars) : CharAt(UpperChars, i) = c
    THEN CharAt(LowerChars, CHOOSE i \in 1..Len(UpperChars) : CharAt(UpperChars, i) = c)
    ELSE c

\* str.lower()
RECURSIVE Lower(_)
Lower(s) ==
    IF Len(s) = 0 THEN "" ELSE LowerChar(CharAt(s, 1)) \o Lower(SubSeq(s, 2, Len(s)))

\* " ".join(tokens)
RECURSIVE JoinSpace(_)
JoinSpace(tokens) ==
    IF Len(tokens) = 0 THEN ""
    ELSE IF Len(tokens) = 1 THEN tokens[1]
    ELSE tokens[1] \o " " \o JoinSpace(Tail(tokens))

\* needle in haystack, for strings
Contains(haystack, needle) ==
    \E i \in 1..(Len(haystack) - Len(needle) + 1) :
        SubSeq(haystack, i, i + Len(needle) - 1) = needle

StartsWith(s, prefix) ==
    Len(s) >= Len(prefix) /\ SubSeq(s, 1, Len(prefix)) = prefix

Digits == "0123456789"

IsDigit(c) == \E i \in 1..Len(Digits) : CharAt(Digits, i) = c

DigitVal(c) == (CHOOSE i \in 1..Len(Digits) : CharAt(Digits, i) = c) - 1

RECURSIVE DigitsVal(_, _)
DigitsVal(s, acc) ==
    IF Len(s) = 0 THEN acc
    ELSE DigitsVal(SubSeq(s, 2, Len(s)), 10 * acc + DigitVal(CharAt(s, 1)))

AllDigits(s) == Len(s) > 0 /\ \A i \in 1..Len(s) : IsDigit(CharAt(s, i))

\* int(s): surrounding whitespace and one sign are accepted; None stands for
\* ValueError
ParseInt(s) ==
    Bind(Strip(s), LAMBDA t :
    Bind(Len(t) > 0 /\ CharAt(t, 1) \in {"+", "-"}, LAMBDA signed :
    Bind(IF signed THEN SubSeq(t, 2, Len(t)) ELSE t, LAMBDA body :
    IF ~AllDigits(body) THEN None
    ELSE IF signed /\ CharAt(t, 1) = "-" THEN Some(0 - DigitsVal(body, 0))
    ELSE Some(DigitsVal(body, 0)))))

\* str(n) for an integer
RECURSIVE NatStr(_)
NatStr(n) ==
    IF n < 10 THEN CharAt(Digits, n + 1)
    ELSE NatStr(n \div 10) \o CharAt(Digits, (n % 10) + 1)

IntStr(n) == IF n < 0 THEN "-" \o NatStr(0 - n) ELSE NatStr(n)

\* the first index from i on whose character is in stop, or Len(s) + 1
NextIn(s, i, stop) ==
    IF \E j \in i..Len(s) : CharAt(s, j) \in stop
    THEN CHOOSE j \in i..Len(s) :
            /\ CharAt(s, j) \in stop
            /\ \A k \in i..(j - 1) : CharAt(s, k) \notin stop
    ELSE Len(s) + 1

\* the first index from i on whose character is not white space, or Len(s) + 1
NextNonSpace(s, i) ==
    IF \E j \in i..Len(s) : ~IsSpace(CharAt(s, j))
    THEN CHOOSE j \in i..Len(s) :
            /\ ~IsSpace(CharAt(s, j))
            /\ \A k \in i..(j - 1) : IsSpace(CharAt(s, k))
    ELSE Len(s) + 1

\* shlex.split(s): POSIX rules, no comment characters.  The reader is in one
\* of the states "sp" (between tokens), "a" (in a word), "dq" and "sq" (in
\* quotes), "esc_a" and "esc_dq" (after a backslash); a run of characters that
\* leave the state unchanged is read in one step.
\* [ok |-> TRUE, tokens |-> ...], or ok |-> FALSE for the ValueError raised at
\* end of input inside quotes or after a backslash.
RECURSIVE ShlexRun(_, _, _, _, _)
ShlexRun(s, i, state, tok, out) ==
    IF i > Len(s)
    THEN IF state = "sp" THEN [ok |-> TRUE, tokens |-> out]
         ELSE IF state = "a" THEN [ok |-> TRUE, tokens |-> Append(out, tok)]
         ELSE [ok |-> FALSE, tokens |-> <<>>]
    ELSE LET c == CharAt(s, i) IN
         CASE state = "sp" ->
                IF IsSpace(c) THEN ShlexRun(s, NextNonSpace(s, i), "sp", "", out)
                ELSE IF c = "\\" THEN ShlexRun(s, i + 1, "esc_a", "", out)
                ELSE IF c = "\"" THEN ShlexRun(s, i + 1, "dq", "", out)
                ELSE IF c = "'" THEN ShlexRun(s, i + 1, "sq", "", out)
                ELSE ShlexRun(s, i, "a", "", out)
           [] state = "a" ->
                IF IsSpace(c) THEN ShlexRun(s, i + 1, "sp", "", Append(out, tok))
                ELSE IF c = "\\" THEN ShlexRun(s, i + 1, "esc_a", tok, out)
                ELSE IF c = "\"" THEN ShlexRun(s, i + 1, "dq", tok, out)
                ELSE IF c = "'" THEN ShlexRun(s, i + 1, "sq", tok, out)
                ELSE LET j == NextIn(s, i, {" ", "\t", "\n", "\\", "\"", "'"}) IN
                     ShlexRun(s, j, "a", tok \o SubSeq(s, i, j - 1), out)
           [] state = "dq" ->
                IF c = "\"" THEN ShlexRun(s, i + 1, "a", tok, out)
                ELSE IF c = "\\" THEN ShlexRun(s, i + 1, "esc_dq", tok, out)
                ELSE LET j == NextIn(s, i, {"\"", "\\"}) IN
                     ShlexRun(s, j, "dq", tok \o SubSeq(s, i, j - 1), out)
           [] state = "sq" ->
                IF c = "'" THEN ShlexRun(s, i + 1, "a", tok, out)
                ELSE LET j == NextIn(s, i, {"'"}) IN
                     ShlexRun(s, j, "sq", tok \o SubSeq(s, i, j - 1), out)
           [] state = "esc_a" -> ShlexRun(s, i + 1, "a", tok \o c, out)
           [] state = "esc_dq" ->
                IF c \in {"\"", "\\"} THEN ShlexRun(s, i + 1, "dq", tok \o c, out)
                ELSE ShlexRun(s, i + 1, "dq", tok \o "\\" \o c, out)

ShlexSplit(s) == ShlexRun(s, 1, "sp", "", <<>>)

\* bool(s) for Optional[str]: None and "" are falsy
TruthyStr(o) == ~IsNone(o) /\ o[1] # ""

\* bool(n) for Optional[int]: None and 0 are falsy
TruthyInt(o) == ~IsNone(o) /\ o[1] # 0

-----------------------------------------------------------------------------
(* The command parser (parsers.py).  A parse returns                        *)
(* [exc |-> None, cmd |-> the ParsedCommand] or                             *)
(* [exc |-> Some(the exception class), msg |-> its message].                *)

Parsed(cmd) == [exc |-> None, cmd |-> cmd]

RaiseParseError(msg) == [exc |-> Some("ParseError"), msg |-> msg]

Max(a, b) == IF a >= b THEN a ELSE b

\* _expect_value: the token at idx (counted from 1), or ParseError past the end
_expect_value(options, idx, key) ==
    IF idx > Len(options)
    THEN RaiseParseError("Option " \o key \o " expects a value")
    ELSE [exc |-> None, value |-> options[idx]]

_as_bool(value) ==
    LET lower == Lower(value) IN
    IF lower \in {"true", "1", "yes", "y", "on"} THEN [exc |-> None, value |-> TRUE]
    ELSE IF lower \in {"false", "0", "no", "n", "off"} THEN [exc |-> None, value |-> FALSE]
    ELSE RaiseParseError("Invalid boolean value: " \o value)

_parse_use(tokens) ==
    IF Len(tokens) < 1
    THEN RaiseParseError("use expects a profile name")
    ELSE Parsed([type |-> "use", profile |-> tokens[1]])

\* the while loop of _parse_login over options[idx..]
RECURSIVE LoginLoop(_, _, _)
LoginLoop(options, idx, acc) ==
    IF idx > Len(options) THEN Parsed(acc)
    ELSE LET key == Lower(options[idx])
             v == _expect_value(options, idx + 1, key)
         IN  IF key \in {"--url", "--base", "--base-url"}
             THEN IF ~IsNone(v.exc) THEN v
                  ELSE LoginLoop(options, idx + 2, [acc EXCEPT !.base_url = Some(v.value)])
             ELSE IF key = "--token"
             THEN IF ~IsNone(v.exc) THEN v
                  ELSE LoginLoop(options, idx + 2, [acc EXCEPT !.token = Some(v.value)])
             ELSE IF key \in {"--username", "--user"}
             THEN IF ~IsNone(v.exc) THEN v
                  ELSE LoginLoop(options, idx + 2, [acc EXCEPT !.username = Some(v.value)])
             ELSE IF key \in {"--password", "--pass"}
             THEN IF ~IsNone(v.exc) THEN v
                  ELSE LoginLoop(options, idx + 2, [acc EXCEPT !.password = Some(v.value)])
             ELSE IF key \in {"--verify-tls", "--verify"}
             THEN IF ~IsNone(v.exc) THEN v
                  ELSE LET b == _as_bool(v.value) IN
                       IF ~IsNone(b.exc) THEN b
                       ELSE LoginLoop(options, idx + 2, [acc EXCEPT !.verify_tls = Some(b.value)])
             ELSE IF key \in {"--default-list", "--list"}
             THEN IF ~IsNone(v.exc) THEN v
                  ELSE LoginLoop(options, idx + 2, [acc EXCEPT !.default_list = Some(v.value)])
             ELSE RaiseParseError("Unknown option for login: " \o options[idx])

\* a login whose verify_tls is true unless --verify-tls says otherwise
_parse_login_verify_default(tokens) ==
    IF Len(tokens) = 0
    THEN RaiseParseError("login expects a profile name")
    ELSE LoginLoop(Tail(tokens), 1,
                   [type |-> "login", profile |-> tokens[1], base_url |-> None,
                    token |-> None, username |-> None, password |-> None,
                    verify_tls |-> Some(TRUE), default_list |-> None])

_parse_login(tokens) ==
    IF Len(tokens) = 0
    THEN RaiseParseError("login expects a profile name")
    ELSE LoginLoop(Tail(tokens), 1,
                   [type |-> "login", profile |-> tokens[1], base_url |-> None,
                    token |-> None, username |-> None, password |-> None,
                    verify_tls |-> None, default_list |-> None])

\* the while loop of _parse_add over options[idx..]
RECURSIVE AddLoop(_, _, _)
AddLoop(options, idx, acc) ==
    IF idx > Len(options) THEN Parsed(acc)
    ELSE LET key == Lower(options[idx])
             v == _expect_value(options, idx + 1, key)
         IN  IF key = "--list"
             THEN IF ~IsNone(v.exc) THEN v
                  ELSE AddLoop(options, idx + 2, [acc EXCEPT !.list_name = Some(v.value)])
             ELSE IF key = "--due"
             THEN IF ~IsNone(v.exc) THEN v
                  ELSE AddLoop(options, idx + 2, [acc EXCEPT !.due = Some(v.value)])
             ELSE IF key = "--desc"
             THEN IF ~IsNone(v.exc) THEN v
                  ELSE AddLoop(options, idx + 2, [acc EXCEPT !.description = Some(v.value)])
             ELSE RaiseParseError("Unknown option for add: " \o options[idx])

_parse_add(tokens) ==
    IF Len(tokens) = 0
    THEN RaiseParseError("add expects a task title")
    ELSE AddLoop(Tail(tokens), 1,
                 [type |-> "add", title |-> tokens[1], list_name |-> None,
                  due |-> None, description |-> None])

\* the while loop of _parse_find over tokens[idx..]
RECURSIVE FindLoop(_, _, _, _)
FindLoop(tokens, idx, terms, page) ==
    IF idx > Len(tokens)
    THEN IF Len(terms) = 0
         THEN RaiseParseError("find expects search terms")
         ELSE Parsed([type |-> "find", terms |-> JoinSpace(terms), page |-> page])
    ELSE IF tokens[idx] = "--page"
         THEN LET v == _expect_value(tokens, idx + 1, "--page") IN
              IF ~IsNone(v.exc) THEN v
              ELSE IF IsNone(ParseInt(v.value))
                   THEN RaiseParseError("--page must be a positive integer")
                   ELSE FindLoop(tokens, idx + 2, terms, Max(1, ParseInt(v.value)[1]))
         ELSE FindLoop(tokens, idx + 1, Append(terms, tokens[idx]), page)

\* a find that accepts --page N without search terms
_parse_find_page_only(tokens) ==
    IF Len(tokens) = 0
    THEN RaiseParseError("find expects search terms")
    ELSE Bind(FindLoop(tokens, 1, <<>>, 1), LAMBDA r :
         IF r = RaiseParseError("find expects search terms")
         THEN Parsed([type |-> "find", terms |-> "", page |-> 1])
         ELSE r)

_parse_find(tokens) ==
    IF Len(tokens) = 0
    THEN RaiseParseError("find expects search terms")
    ELSE FindLoop(tokens, 1, <<>>, 1)

\* the while loop of _parse_due over tokens[idx..]
RECURSIVE DueLoop(_, _, _, _)
DueLoop(tokens, idx, period, page) ==
    IF idx > Len(tokens)
    THEN Parsed([type |-> "due", period |-> period, page |-> page])
    ELSE IF tokens[idx] = "--page"
         THEN LET v == _expect_value(tokens, idx + 1, "--page") IN
              IF ~IsNone(v.exc) THEN v
              ELSE IF IsNone(ParseInt(v.value))
                   THEN RaiseParseError("--page must be a positive integer")
                   ELSE DueLoop(tokens, idx + 2, period, Max(1, ParseInt(v.value)[1]))
         ELSE RaiseParseError("Unknown option for due: " \o tokens[idx])

\* a due that compares the period as typed
_parse_due_case_sensitive(tokens) ==
    IF Len(tokens) = 0
    THEN RaiseParseError("due expects a period (today, tomorrow, week)")
    ELSE IF tokens[1] \notin {"today", "tomorrow", "week"}
         THEN RaiseParseError("due period must be today, tomorrow, or week")
         ELSE DueLoop(tokens, 2, tokens[1], 1)

_parse_due(tokens) ==
    IF Len(tokens) = 0
    THEN RaiseParseError("due expects a period (today, tomorrow, week)")
    ELSE LET period == Lower(tokens[1]) IN
         IF period \notin {"today", "tomorrow", "week"}
         THEN RaiseParseError("due period must be today, tomorrow, or week")
         ELSE DueLoop(tokens, 2, period, 1)

_parse_task_id(command, tokens) ==
    IF Len(tokens) = 0
    THEN RaiseParseError(command \o " expects a task id")
    ELSE IF IsNone(ParseInt(tokens[1]))
         THEN RaiseParseError("Task id must be an integer")
         ELSE Parsed([type |-> command, task_id |-> ParseInt(tokens[1])[1]])

HelpCommand == [type |-> "help"]

parse_query(raw_query) ==
    LET split == IF raw_query # "" THEN ShlexSplit(Strip(raw_query))
                 ELSE [ok |-> TRUE, tokens |-> <<>>]
        tokens == split.tokens
        command == Lower(tokens[1])
        remainder == Tail(tokens)
    IN  IF ~split.ok THEN [exc |-> Some("ValueError"), msg |-> "No closing quotation"]
        ELSE IF Len(tokens) = 0 THEN Parsed(HelpCommand)
        ELSE IF command = "login" THEN _parse_login(remainder)
        ELSE IF command = "use" THEN _parse_use(remainder)
        ELSE IF command = "add" THEN _parse_add(remainder)
        ELSE IF command = "find" THEN _parse_find(remainder)
        ELSE IF command = "due" THEN _parse_due(remainder)
        ELSE IF command = "lists" THEN Parsed([type |-> "lists"])
        ELSE IF command = "done" THEN _parse_task_id("done", remainder)
        ELSE IF command = "open" THEN _parse_task_id("open", remainder)
        ELSE Parsed(HelpCommand)

-----------------------------------------------------------------------------
(* The queries typed into the launcher *)

TokenLoginQueries ==
    {"login w --url u/ --token t --list 5", "login w --token t",
     "login \"w --url u --token t"}

PasswordLoginQueries ==
    {"login h --url u --user x --pass y", "login h --user x"}

UseQueries == {"use w", "use h", "use"}

ListsQueries == {"lists"}

AddQueries ==
    {"add Milk", "add Milk --list inbox", "add Milk --list nosuch"}

FindQueries ==
    {"find a"}

DueQueries ==
    {"due today"}

DoneQueries ==
    {"done 7"}

OpenQueries ==
    {"open 7"}

HelpQueries == {"", "vik lists", "find \"a"}

\* the logins of two profiles that differ in their default list
CacheLoginQueries ==
    {"login w --url u/ --token t --list 5", "login h --url u --token t"}

\* logins that give one, none or both of the user name and the password,
\* with and without --token, for the new profile h and the known profile w
CredentialQueries ==
    {"login h --url u --user x",
     "login h --url u --pass y --token t",
     "login w --user x --token t",
     "login h --url u",
     "login w",
     "login h --url u --user x --pass y",
     "login w --user x --pass y --token t",
     "login h --url u --user \"\" --pass y",
     "login w --token t --user \"\" --pass \"\"",
     "login h --url u --token t"}

Queries ==
    TokenLoginQueries \cup PasswordLoginQueries \cup UseQueries \cup ListsQueries
        \cup AddQueries \cup FindQueries \cup DueQueries \cup DoneQueries \cup OpenQueries
        \cup HelpQueries \cup CacheLoginQueries \cup CredentialQueries

\* parse_query tabulated over Queries: the parse of a query depends on nothing
\* but its text
ParsedQueries == [q \in Queries |-> parse_query(q)]

-----------------------------------------------------------------------------
(* ProfilesStore (profiles.py) over the in-memory state, the secret store   *)
(* and the persisted document.  A store value is the record                 *)
(* [profiles, active, secrets, disk]; every method returns                  *)
(* [st |-> the store after the call, exc |-> None or the exception raised,  *)
(*  ret |-> the value returned].                                            *)

EmptyStore ==
    [profiles |-> <<>>, active |-> None, secrets |-> <<>>,
     disk |-> [profiles |-> <<>>, active |-> None]]

_credential_key(profile_name) == profile_name \o "::token"

\* SecretStore.get_secret / InMemorySecretBackend.get_password
get_secret(st, key) == DictGet(st.secrets, key)

\* SecretStore.set_secret; backendFails: the backend raises RuntimeError
\* (SecretToolBackend.set_password) and stores nothing
set_secret(st, key, secret, backendFails) ==
    IF backendFails
    THEN [st |-> st, exc |-> Some("RuntimeError")]
    ELSE [st |-> [st EXCEPT !.secrets = DictPut(@, key, secret)], exc |-> None]

\* SecretStore.delete_secret: the backends swallow a failed delete
delete_secret(st, key) == [st EXCEPT !.secrets = DictDel(@, key)]

_persist(st) == [st EXCEPT !.disk = [profiles |-> st.profiles, active |-> st.active]]

active_profile_name(st) == st.active

list_profiles(st) == DictKeys(st.profiles)

get_profile(st, name, include_secret) ==
    LET raw == DictGet(st.profiles, name) IN
    IF IsNone(raw)
    THEN [st |-> st, exc |-> Some("ProfileNotFoundError"), ret |-> None]
    ELSE [st |-> st, exc |-> None,
          ret |-> Some([name |-> name,
                        base_url |-> raw[1].base_url,
                        auth_method |-> raw[1].auth_method,
                        verify_tls |-> raw[1].verify_tls,
                        default_list_id |-> raw[1].default_list_id,
                        token |-> IF include_secret
                                  THEN get_secret(st, _credential_key(name))
                                  ELSE None])]

\* a switch that persists without moving the pointer
set_active_noassign(st, name) ==
    IF ~DictHas(st.profiles, name)
    THEN [st |-> st, exc |-> Some("ProfileNotFoundError"), ret |-> None]
    ELSE [st |-> _persist(st), exc |-> None, ret |-> None]

set_active(st, name) ==
    IF ~DictHas(st.profiles, name)
    THEN [st |-> st, exc |-> Some("ProfileNotFoundError"), ret |-> None]
    ELSE [st |-> _persist([st EXCEPT !.active = Some(name)]), exc |-> None, ret |-> None]

get_active_profile(st) ==
    LET name == active_profile_name(st) IN
    IF ~TruthyStr(name)
    THEN [st |-> st, exc |-> Some("ProfileNotFoundError"), ret |-> None]
    ELSE get_profile(st, name[1], TRUE)

\* a record that embeds the secret
ProfileData_withtoken(profile) ==
    [base_url |-> RStripSlash(profile.base_url),
     auth_method |-> profile.auth_method,
     verify_tls |-> profile.verify_tls,
     default_list_id |-> profile.default_list_id,
     token |-> profile.token]

\* a record that keeps the base URL as given
ProfileData_nostrip(profile) ==
    [base_url |-> profile.base_url,
     auth_method |-> profile.auth_method,
     verify_tls |-> profile.verify_tls,
     default_list_id |-> profile.default_list_id]

\* the record save_profile writes for a profile
ProfileData(profile) ==
    [base_url |-> RStripSlash(profile.base_url),
     auth_method |-> profile.auth_method,
     verify_tls |-> profile.verify_tls,
     default_list_id |-> profile.default_list_id]

save_profile(st, profile, token, backendFails) ==
    LET s1 == [st EXCEPT !.profiles = DictPut(@, profile.name, ProfileData(profile))]
        w  == set_secret(s1, _credential_key(profile.name), token[1], backendFails)
        s2 == IF TruthyStr(token) THEN w.st
              ELSE IF DictHas(s1.profiles, profile.name)
                   THEN delete_secret(s1, _credential_key(profile.name))
                   ELSE s1
        s3 == IF ~TruthyStr(s2.active) THEN [s2 EXCEPT !.active = Some(profile.name)] ELSE s2
    IN  IF TruthyStr(token) /\ ~IsNone(w.exc)
        THEN [st |-> s1, exc |-> Some("RuntimeError"), ret |-> None]
        ELSE [st |-> _persist(s3), exc |-> None, ret |-> None]

\* a removal that leaves the active pointer alone
remove_profile_keepactive(st, name) ==
    IF DictHas(st.profiles, name)
    THEN LET s1 == [st EXCEPT !.profiles = DictDel(@, name)]
             s2 == delete_secret(s1, _credential_key(name))
         IN  [st |-> _persist(s2), exc |-> None, ret |-> None]
    ELSE [st |-> st, exc |-> Some("ProfileNotFoundError"), ret |-> None]

remove_profile(st, name) ==
    IF DictHas(st.profiles, name)
    THEN LET s1 == [st EXCEPT !.profiles = DictDel(@, name)]
             s2 == delete_secret(s1, _credential_key(name))
             s3 == IF s2.active = Some(name)
                   THEN [s2 EXCEPT !.active = DictFirstKey(s2.profiles)]
                   ELSE s2
         IN  [st |-> _persist(s3), exc |-> None, ret |-> None]
    ELSE [st |-> st, exc |-> Some("ProfileNotFoundError"), ret |-> None]

-----------------------------------------------------------------------------
(* TTLCache (cache.py).  The store is a dict from key to the tuple          *)
(* (expires_at, value), here a record.  Every method takes the store and    *)
(* the clock reading and returns [cache |-> the store after, ret |-> ...].  *)

\* the ttl the cache is constructed with, in clock ticks
CacheTtl == 1

\* the last clock reading explored
MaxClock == 2

\* an expiry test that also drops an entry read exactly at its expiry time
TTLCache_get_early(c, key, t) ==
    LET item == DictGet(c, key) IN
    IF IsNone(item)
    THEN [cache |-> c, ret |-> None]
    ELSE IF item[1].expires_at <= t
         THEN [cache |-> DictDel(c, key), ret |-> None]
         ELSE [cache |-> c, ret |-> Some(item[1].value)]

TTLCache_get(c, key, t) ==
    LET item == DictGet(c, key) IN
    IF IsNone(item)
    THEN [cache |-> c, ret |-> None]
    ELSE IF item[1].expires_at < t
         THEN [cache |-> DictDel(c, key), ret |-> None]
         ELSE [cache |-> c, ret |-> Some(item[1].value)]

TTLCache_set(c, key, value, t) ==
    [cache |-> DictPut(c, key, [expires_at |-> t + CacheTtl, value |-> value]),
     ret |-> None]

TTLCache_pop(c, key) ==
    LET item == DictGet(c, key) IN
    [cache |-> DictDel(c, key),
     ret |-> IF IsNone(item) THEN None ELSE Some(item[1].value)]

-----------------------------------------------------------------------------
(* Exceptions.  A raised exception is [cls, status, msg]; status is the     *)
(* status_code of a VikunjaApiError and None for every other class.         *)

Exc(cls, msg) == [cls |-> cls, status |-> None, msg |-> msg]

VikunjaApiError(msg, status_code) ==
    [cls |-> "VikunjaApiError", status |-> status_code, msg |-> msg]

\* str(KeyError(arg)) is the repr of the argument
KeyErrorStr(arg) == "'" \o arg \o "'"

-----------------------------------------------------------------------------
(* The API client (vikunja_client.py).  The transport's answer to a request *)
(* is an input: [kind |-> "ok", status, body, headers], [kind |-> "http",   *)
(* status, msg] for urllib's HTTPError, [kind |-> "urlerror", reason] for a *)
(* URLError that is no HTTPError (reason is the class name of its cause),   *)
(* [kind |-> "timeout"] for the OSError a read of the response raises       *)
(* after API_TIMEOUT.  A body is                                            *)
(* [empty |-> TRUE], [empty |-> FALSE, json |-> FALSE] (not JSON) or        *)
(* [empty |-> FALSE, json |-> TRUE, data |-> the decoded value].            *)
(* A client method returns [exc, ret, calls]: calls lists the requests it   *)
(* sent.                                                                    *)

API_TIMEOUT == 8

OkResponse(data) ==
    [kind |-> "ok", status |-> 200,
     body |-> [empty |-> FALSE, json |-> TRUE, data |-> data], headers |-> <<>>]

\* VikunjaClient._execute: the opener's answer, with HTTPError alone
\* translated into VikunjaApiError
_execute(request, resp) ==
    IF resp.kind = "http"
    THEN [exc |-> Some(VikunjaApiError(resp.msg, Some(resp.status))), ret |-> None,
          calls |-> <<request>>]
    ELSE IF resp.kind = "urlerror"
    THEN [exc |-> Some(Exc("URLError", resp.reason)), ret |-> None, calls |-> <<request>>]
    ELSE IF resp.kind = "timeout"
    THEN [exc |-> Some(Exc("TimeoutError", "timed out")), ret |-> None, calls |-> <<request>>]
    ELSE [exc |-> None, ret |-> Some(resp), calls |-> <<request>>]

\* a client that sends the request whether or not the profile has a token
_execute_profile_unchecked(profile, request, resp) ==
    _execute(request, resp)

_execute_profile(profile, request, resp) ==
    IF ~TruthyStr(profile.token)
    THEN [exc |-> Some(VikunjaApiError("Profile does not have an access token", None)),
          ret |-> None, calls |-> <<>>]
    ELSE _execute(request, resp)

\* VikunjaClient._read_json: [exc, data]; {} is the record with no fields
_read_json(response) ==
    IF response.status = 204 THEN [exc |-> None, data |-> <<>>]
    ELSE IF response.body.empty THEN [exc |-> None, data |-> <<>>]
    ELSE IF ~response.body.json
         THEN [exc |-> Some(Exc("JSONDecodeError", "Expecting value")), data |-> <<>>]
         ELSE [exc |-> None, data |-> response.body.data]

\* dict.get(field) of a decoded JSON object
JsonGet(data, field) == IF field \in DOMAIN data THEN Some(data[field]) ELSE None

\* truth value of a JSON number that may be absent
TruthyJson(o) == ~IsNone(o) /\ o[1] # 0

\* VikunjaClient.login
client_login(base_url, username, password, verify_tls, resp) ==
    Bind(_execute("POST /auth/login", resp), LAMBDA r :
    IF ~IsNone(r.exc) THEN r
    ELSE Bind(_read_json(r.ret[1]), LAMBDA j :
    IF ~IsNone(j.exc) THEN [exc |-> j.exc, ret |-> None, calls |-> r.calls]
    ELSE Bind(JsonGet(j.data, "token"), LAMBDA token :
    IF IsNone(token) \/ token[1] = ""
    THEN [exc |-> Some(VikunjaApiError("Login succeeded but no token returned", None)),
          ret |-> None, calls |-> r.calls]
    ELSE [exc |-> None, ret |-> token, calls |-> r.calls])))

\* VikunjaClient.verify_token
verify_token(profile, resp) ==
    Bind(_execute_profile(profile, "GET /user", resp), LAMBDA r :
    IF ~IsNone(r.exc) THEN r
    ELSE Bind(_read_json(r.ret[1]), LAMBDA j :
    IF ~IsNone(j.exc) THEN [exc |-> j.exc, ret |-> None, calls |-> r.calls]
    ELSE [exc |-> None, ret |-> Some(TruthyJson(JsonGet(j.data, "id"))), calls |-> r.calls]))

\* VikunjaClient.build_task_url
build_task_url(profile, task_id) ==
    RStripSlash(profile.base_url) \o "/tasks/" \o IntStr(task_id)

\* datetime.fromisoformat accepts the timestamps the server writes
IsoDates == {"2024-12-31T00:00:00Z"}

\* VikunjaClient._task_from_payload: [exc, ret]
_task_from_payload(data, profile) ==
    IF "id" \notin DOMAIN data
    THEN [exc |-> Some(Exc("KeyError", KeyErrorStr("id"))), ret |-> None]
    ELSE LET due_raw == JsonGet(data, "due_date") IN
         [exc |-> None,
          ret |-> Some([id |-> data.id,
                        title |-> IF "title" \in DOMAIN data THEN data.title ELSE "(untitled)",
                        description |-> JsonGet(data, "description"),
                        list_id |-> JsonGet(data, "list_id"),
                        due_date |-> IF TruthyStr(due_raw) /\ due_raw[1] \in IsoDates
                                     THEN due_raw ELSE None,
                        done |-> IF "done" \in DOMAIN data THEN data.done ELSE FALSE,
                        url |-> Some(build_task_url(profile, data.id))])]

\* [ListSummary(id=item["id"], title=item["title"]) for item in data]
ListSummaries(data) ==
    IF \E i \in 1..Len(data) : {"id", "title"} \ DOMAIN data[i] # {}
    THEN [exc |-> Some(Exc("KeyError", KeyErrorStr("title"))), ret |-> None]
    ELSE [exc |-> None,
          ret |-> Some([i \in 1..Len(data) |-> [id |-> data[i].id, title |-> data[i].title]])]

\* VikunjaClient.get_lists (the Pagination it also returns is dropped by the router)
get_lists(profile, resp) ==
    Bind(_execute_profile(profile, "GET /lists", resp), LAMBDA r :
    IF ~IsNone(r.exc) THEN r
    ELSE Bind(_read_json(r.ret[1]), LAMBDA j :
    IF ~IsNone(j.exc) THEN [exc |-> j.exc, ret |-> None, calls |-> r.calls]
    ELSE Bind(ListSummaries(j.data), LAMBDA l :
    [exc |-> l.exc, ret |-> l.ret, calls |-> r.calls])))

\* the methods that return one Task: create_task, complete_task, get_task
OneTask(profile, request, resp) ==
    Bind(_execute_profile(profile, request, resp), LAMBDA r :
    IF ~IsNone(r.exc) THEN r
    ELSE Bind(_read_json(r.ret[1]), LAMBDA j :
    IF ~IsNone(j.exc) THEN [exc |-> j.exc, ret |-> None, calls |-> r.calls]
    ELSE Bind(_task_from_payload(j.data, profile), LAMBDA t :
    [exc |-> t.exc, ret |-> t.ret, calls |-> r.calls])))

create_task(profile, list_id, title, description, due, resp) ==
    OneTask(profile, "POST /lists/" \o IntStr(list_id) \o "/tasks", resp)

complete_task(profile, task_id, resp) ==
    OneTask(profile, "PUT /tasks/" \o IntStr(task_id), resp)

get_task(profile, task_id, resp) ==
    OneTask(profile, "GET /tasks/" \o IntStr(task_id), resp)

\* Pagination.from_headers: [exc, ret]; int() of a header that is no number
\* raises ValueError
PaginationFromHeaders(headers) ==
    Bind(IF "page" \in DOMAIN headers THEN ParseInt(headers.page) ELSE Some(1), LAMBDA page :
    Bind(IF "total_pages" \in DOMAIN headers THEN ParseInt(headers.total_pages) ELSE Some(1),
         LAMBDA total_pages :
    IF IsNone(page) \/ IsNone(total_pages)
    THEN [exc |-> Some(Exc("ValueError", "invalid literal for int()")), ret |-> None]
    ELSE [exc |-> None, ret |-> Some([page |-> page[1], total_pages |-> total_pages[1]])]))

\* [self._task_from_payload(item, profile) for item in payload]: [exc, ret]
TasksFromPayload(payload, profile) ==
    IF \E i \in 1..Len(payload) : ~IsNone(_task_from_payload(payload[i], profile).exc)
    THEN [exc |-> Some(Exc("KeyError", KeyErrorStr("id"))), ret |-> None]
    ELSE [exc |-> None,
          ret |-> Some([i \in 1..Len(payload) |-> _task_from_payload(payload[i], profile).ret[1]])]

\* the methods that return PaginatedTasks: search_tasks and due_tasks
PagedTasks(profile, request, resp) ==
    Bind(_execute_profile(profile, request, resp), LAMBDA r :
    IF ~IsNone(r.exc) THEN r
    ELSE Bind(_read_json(r.ret[1]), LAMBDA j :
    IF ~IsNone(j.exc) THEN [exc |-> j.exc, ret |-> None, calls |-> r.calls]
    ELSE Bind(PaginationFromHeaders(r.ret[1].headers), LAMBDA pg :
    IF ~IsNone(pg.exc) THEN [exc |-> pg.exc, ret |-> None, calls |-> r.calls]
    ELSE Bind(TasksFromPayload(j.data, profile), LAMBDA ts :
    IF ~IsNone(ts.exc) THEN [exc |-> ts.exc, ret |-> None, calls |-> r.calls]
    ELSE [exc |-> None,
          ret |-> Some([tasks |-> ts.ret[1], page |-> pg.ret[1].page,
                        total_pages |-> pg.ret[1].total_pages,
                        has_more |-> pg.ret[1].page < pg.ret[1].total_pages]),
          calls |-> r.calls]))))

search_tasks(profile, query, page, resp) ==
    PagedTasks(profile, "GET /tasks/all?search=" \o query \o "&page=" \o IntStr(page), resp)

due_tasks(profile, period, page, resp) ==
    PagedTasks(profile, "GET /tasks/all?due=" \o period \o "&page=" \o IntStr(page), resp)

-----------------------------------------------------------------------------
(* Display entries (mappers.py).  via names the mapper that built the entry *)

RECURSIVE JoinBar(_)
JoinBar(parts) ==
    IF Len(parts) = 0 THEN ""
    ELSE IF Len(parts) = 1 THEN parts[1]
    ELSE parts[1] \o " | " \o JoinBar(Tail(parts))

\* strftime('%Y-%m-%d %H:%M UTC') of a parsed timestamp
FormatDue(d) == SubSeq(d, 1, 10) \o " " \o SubSeq(d, 12, 16) \o " UTC"

task_result(task) ==
    LET parts == (IF ~IsNone(task.due_date) THEN <<"Due " \o FormatDue(task.due_date[1])>> ELSE <<>>)
                 \o (IF TruthyInt(task.list_id) THEN <<"List #" \o IntStr(task.list_id[1])>> ELSE <<>>)
                 \o (IF task.done THEN <<"Completed">> ELSE <<>>)
    IN  [via |-> "task_result", Title |-> task.title,
         SubTitle |-> IF Len(parts) > 0 THEN JoinBar(parts)
                      ELSE "Enter: open, Alt: complete, Ctrl: copy link",
         AutoCompleteText |-> ""]

list_result(list_summary) ==
    [via |-> "list_result", Title |-> list_summary.title,
     SubTitle |-> "List #" \o IntStr(list_summary.id), AutoCompleteText |-> ""]

info_result(title, subtitle) ==
    [via |-> "info_result", Title |-> title, SubTitle |-> subtitle, AutoCompleteText |-> ""]

error_result(title, subtitle) ==
    [via |-> "error_result", Title |-> title, SubTitle |-> subtitle, AutoCompleteText |-> ""]

show_more_result(command, page, auto_complete) ==
    [via |-> "show_more_result", Title |-> "Show more", SubTitle |-> "Load more results",
     AutoCompleteText |-> auto_complete]

due_subtitle(period) ==
    IF period = "today" THEN "Tasks due today"
    ELSE IF period = "tomorrow" THEN "Tasks due tomorrow"
    ELSE IF period = "week" THEN "Tasks due this week"
    ELSE ""

-----------------------------------------------------------------------------
(* The command router (router.py).  The environment of one handle call is   *)
(* env: the transport's answer per endpoint (login, user, lists, task,      *)
(* tasks), secretFails (the secret backend refuses the write) and cancel:   *)
(* when the caller cancels the token, "never", "before" the first           *)
(* checkpoint or "after" it, during the network call.                       *)
(* A command returns [store, cache, exc, ret, calls]: ret is its entries.   *)

\* CancelToken.throw_if_cancelled at the checkpoint before (1) or after (2)
\* the network call
IsCancelled(env, checkpoint) ==
    IF checkpoint = 1 THEN env.cancel = "before" ELSE env.cancel \in {"before", "after"}

CancelledError == Exc("CancelledError", "")

ParseError(msg) == Exc("ParseError", msg)

ProfileNotFoundError(name) == Exc("ProfileNotFoundError", KeyErrorStr(name))

Failed(st, c, exc, calls) ==
    [store |-> st, cache |-> c, exc |-> Some(exc), ret |-> <<>>, calls |-> calls]

Done(st, c, entries, calls) ==
    [store |-> st, cache |-> c, exc |-> None, ret |-> entries, calls |-> calls]

\* x or y for Optional[str]
OrStr(x, y) == IF TruthyStr(x) THEN x ELSE y

\* a commit that saves the profile before the token check
LoginCommit_saves_first(st, c, profile, token, env, calls) ==
    Bind(save_profile(st, profile, token, env.secretFails), LAMBDA sv :
    IF ~IsNone(sv.exc)
    THEN Failed(sv.st, c, Exc("RuntimeError", "Secure storage unavailable"), calls)
    ELSE Bind(verify_token(profile, env.user), LAMBDA v :
    IF ~IsNone(v.exc) THEN Failed(sv.st, c, v.exc[1], calls \o v.calls)
    ELSE IF ~v.ret[1]
    THEN Failed(sv.st, c, VikunjaApiError("Unable to verify token", Some(401)), calls \o v.calls)
    ELSE Bind(set_active(sv.st, profile.name), LAMBDA sa :
         Done(sa.st, TTLCache_pop(c, profile.name).cache,
              <<info_result("Profile saved", "Active profile: " \o profile.name)>>,
              calls \o v.calls))))

\* a commit that leaves the active pointer to save_profile
LoginCommit_no_switch(st, c, profile, token, env, calls) ==
    Bind(verify_token(profile, env.user), LAMBDA v :
    IF ~IsNone(v.exc) THEN Failed(st, c, v.exc[1], calls \o v.calls)
    ELSE IF ~v.ret[1]
    THEN Failed(st, c, VikunjaApiError("Unable to verify token", Some(401)), calls \o v.calls)
    ELSE Bind(save_profile(st, profile, token, env.secretFails), LAMBDA sv :
    IF ~IsNone(sv.exc)
    THEN Failed(sv.st, c, Exc("RuntimeError", "Secure storage unavailable"), calls \o v.calls)
    ELSE Done(sv.st, TTLCache_pop(c, profile.name).cache,
              <<info_result("Profile saved", "Active profile: " \o profile.name)>>,
              calls \o v.calls)))

\* the end of _login: verify the token, save, switch, invalidate
LoginCommit(st, c, profile, token, env, calls) ==
    Bind(verify_token(profile, env.user), LAMBDA v :
    IF ~IsNone(v.exc) THEN Failed(st, c, v.exc[1], calls \o v.calls)
    ELSE IF ~v.ret[1]
    THEN Failed(st, c, VikunjaApiError("Unable to verify token", Some(401)), calls \o v.calls)
    ELSE Bind(save_profile(st, profile, token, env.secretFails), LAMBDA sv :
    IF ~IsNone(sv.exc)
    THEN Failed(sv.st, c, Exc("RuntimeError", "Secure storage unavailable"), calls \o v.calls)
    ELSE Bind(set_active(sv.st, profile.name), LAMBDA sa :
    IF ~IsNone(sa.exc)
    THEN Failed(sa.st, c, ProfileNotFoundError(profile.name), calls \o v.calls)
    ELSE Done(sa.st, TTLCache_pop(c, profile.name).cache,
              <<info_result("Profile saved", "Active profile: " \o profile.name)>>,
              calls \o v.calls))))

\* a login that keeps the --token value when one is given, whatever
\* client.login minted
_login_prefers_flag_token(st, c, command, env) ==
    Bind(get_profile(st, command.profile, FALSE), LAMBDA found :
    Bind(IF IsNone(found.exc) THEN found.ret ELSE None, LAMBDA existing :
    Bind(OrStr(command.base_url,
               IF ~IsNone(existing) THEN Some(existing[1].base_url) ELSE None),
         LAMBDA base_url :
    IF ~TruthyStr(base_url)
    THEN Failed(st, c, ParseError("login requires --url when creating a new profile"), <<>>)
    ELSE
    Bind(IF ~IsNone(command.verify_tls) THEN command.verify_tls[1]
         ELSE IF ~IsNone(existing) THEN existing[1].verify_tls ELSE TRUE,
         LAMBDA verify_tls :
    Bind(IF TruthyStr(command.default_list) THEN ParseInt(command.default_list[1])
         ELSE IF ~IsNone(existing) THEN existing[1].default_list_id ELSE None,
         LAMBDA default_list_id :
    IF TruthyStr(command.default_list) /\ IsNone(default_list_id)
    THEN Failed(st, c, ParseError("--default-list must be a numeric list id"), <<>>)
    ELSE
    Bind(TruthyStr(command.username) /\ TruthyStr(command.password), LAMBDA both :
    IF ~both /\ (TruthyStr(command.username) \/ TruthyStr(command.password))
    THEN Failed(st, c, ParseError("login requires both --username and --password"), <<>>)
    ELSE
    \* token, as [exc, ret, calls]: minted by client.login or given by --token
    Bind(IF both
         THEN client_login(base_url[1], command.username[1], command.password[1],
                           verify_tls, env.login)
         ELSE [exc |-> None, ret |-> command.token, calls |-> <<>>],
         LAMBDA token :
    IF ~IsNone(token.exc) THEN Failed(st, c, token.exc[1], token.calls)
    ELSE IF ~TruthyStr(token.ret)
    THEN Failed(st, c, ParseError("login requires either --token or username/password"),
                token.calls)
    ELSE Bind(OrStr(command.token, token.ret), LAMBDA kept :
         LoginCommit(st, c,
                     [name |-> command.profile, base_url |-> base_url[1],
                      auth_method |-> IF both THEN "login" ELSE "token",
                      verify_tls |-> verify_tls, default_list_id |-> default_list_id,
                      token |-> kept],
                     kept, env, token.calls)))))))))

_login(st, c, command, env) ==
    Bind(get_profile(st, command.profile, FALSE), LAMBDA found :
    Bind(IF IsNone(found.exc) THEN found.ret ELSE None, LAMBDA existing :
    Bind(OrStr(command.base_url,
               IF ~IsNone(existing) THEN Some(existing[1].base_url) ELSE None),
         LAMBDA base_url :
    IF ~TruthyStr(base_url)
    THEN Failed(st, c, ParseError("login requires --url when creating a new profile"), <<>>)
    ELSE
    Bind(IF ~IsNone(command.verify_tls) THEN command.verify_tls[1]
         ELSE IF ~IsNone(existing) THEN existing[1].verify_tls ELSE TRUE,
         LAMBDA verify_tls :
    Bind(IF TruthyStr(command.default_list) THEN ParseInt(command.default_list[1])
         ELSE IF ~IsNone(existing) THEN existing[1].default_list_id ELSE None,
         LAMBDA default_list_id :
    IF TruthyStr(command.default_list) /\ IsNone(default_list_id)
    THEN Failed(st, c, ParseError("--default-list must be a numeric list id"), <<>>)
    ELSE
    Bind(TruthyStr(command.username) /\ TruthyStr(command.password), LAMBDA both :
    IF ~both /\ (TruthyStr(command.username) \/ TruthyStr(command.password))
    THEN Failed(st, c, ParseError("login requires both --username and --password"), <<>>)
    ELSE
    \* token, as [exc, ret, calls]: minted by client.login or given by --token
    Bind(IF both
         THEN client_login(base_url[1], command.username[1], command.password[1],
                           verify_tls, env.login)
         ELSE [exc |-> None, ret |-> command.token, calls |-> <<>>],
         LAMBDA token :
    IF ~IsNone(token.exc) THEN Failed(st, c, token.exc[1], token.calls)
    ELSE IF ~TruthyStr(token.ret)
    THEN Failed(st, c, ParseError("login requires either --token or username/password"),
                token.calls)
    ELSE LoginCommit(st, c,
                     [name |-> command.profile, base_url |-> base_url[1],
                      auth_method |-> IF both THEN "login" ELSE "token",
                      verify_tls |-> verify_tls, default_list_id |-> default_list_id,
                      token |-> token.ret],
                     token.ret, env, token.calls))))))))

_use(st, c, command, env) ==
    Bind(set_active(st, command.profile), LAMBDA sa :
    IF ~IsNone(sa.exc) THEN Failed(st, c, ProfileNotFoundError(command.profile), <<>>)
    ELSE Done(sa.st, c,
              <<info_result("Switched profile", "Active profile: " \o command.profile)>>, <<>>))

\* an active-profile lookup that reports a missing profile as an API error
ActiveProfile_api_error(st) ==
    Bind(get_active_profile(st), LAMBDA r :
    IF IsNone(r.exc) THEN r
    ELSE [st |-> st,
          exc |-> Some(VikunjaApiError("No active profile configured", None)),
          ret |-> None])

\* get_active_profile as the router calls it: [exc |-> Some(exception), ...]
\* or [exc |-> None, ret |-> Some(profile)]
ActiveProfile(st) ==
    Bind(get_active_profile(st), LAMBDA r :
    IF IsNone(r.exc) THEN r
    ELSE [st |-> st,
          exc |-> Some(IF ~TruthyStr(active_profile_name(st))
                       THEN Exc("ProfileNotFoundError", KeyErrorStr("No active profile configured"))
                       ELSE ProfileNotFoundError(active_profile_name(st)[1])),
          ret |-> None])

\* a _get_lists that caches the lists before the second checkpoint
_get_lists_caches_first(c, t, profile, env) ==
    Bind(TTLCache_get(c, profile.name, t), LAMBDA cached :
    IF ~IsNone(cached.ret)
    THEN [cache |-> cached.cache, exc |-> None, ret |-> cached.ret, calls |-> <<>>]
    ELSE IF IsCancelled(env, 1)
    THEN [cache |-> cached.cache, exc |-> Some(CancelledError), ret |-> None, calls |-> <<>>]
    ELSE Bind(get_lists(profile, env.lists), LAMBDA fetched :
    IF ~IsNone(fetched.exc)
    THEN [cache |-> cached.cache, exc |-> fetched.exc, ret |-> None, calls |-> fetched.calls]
    ELSE Bind(TTLCache_set(cached.cache, profile.name, fetched.ret[1], t).cache, LAMBDA filled :
    IF IsCancelled(env, 2)
    THEN [cache |-> filled, exc |-> Some(CancelledError), ret |-> None,
          calls |-> fetched.calls]
    ELSE [cache |-> filled, exc |-> None, ret |-> fetched.ret, calls |-> fetched.calls])))

\* a _get_lists that takes a cached empty list for a miss
_get_lists_truthy(c, t, profile, env) ==
    Bind(TTLCache_get(c, profile.name, t), LAMBDA cached :
    IF ~IsNone(cached.ret) /\ Len(cached.ret[1]) > 0
    THEN [cache |-> cached.cache, exc |-> None, ret |-> cached.ret, calls |-> <<>>]
    ELSE IF IsCancelled(env, 1)
    THEN [cache |-> cached.cache, exc |-> Some(CancelledError), ret |-> None, calls |-> <<>>]
    ELSE Bind(get_lists(profile, env.lists), LAMBDA fetched :
    IF ~IsNone(fetched.exc)
    THEN [cache |-> cached.cache, exc |-> fetched.exc, ret |-> None, calls |-> fetched.calls]
    ELSE IF IsCancelled(env, 2)
    THEN [cache |-> cached.cache, exc |-> Some(CancelledError), ret |-> None,
          calls |-> fetched.calls]
    ELSE [cache |-> TTLCache_set(cached.cache, profile.name, fetched.ret[1], t).cache,
          exc |-> None, ret |-> fetched.ret, calls |-> fetched.calls]))

\* CommandRouter._get_lists: [cache, exc, ret, calls]
_get_lists(c, t, profile, env) ==
    Bind(TTLCache_get(c, profile.name, t), LAMBDA cached :
    IF ~IsNone(cached.ret)
    THEN [cache |-> cached.cache, exc |-> None, ret |-> cached.ret, calls |-> <<>>]
    ELSE IF IsCancelled(env, 1)
    THEN [cache |-> cached.cache, exc |-> Some(CancelledError), ret |-> None, calls |-> <<>>]
    ELSE Bind(get_lists(profile, env.lists), LAMBDA fetched :
    IF ~IsNone(fetched.exc)
    THEN [cache |-> cached.cache, exc |-> fetched.exc, ret |-> None, calls |-> fetched.calls]
    ELSE IF IsCancelled(env, 2)
    THEN [cache |-> cached.cache, exc |-> Some(CancelledError), ret |-> None,
          calls |-> fetched.calls]
    ELSE [cache |-> TTLCache_set(cached.cache, profile.name, fetched.ret[1], t).cache,
          exc |-> None, ret |-> fetched.ret, calls |-> fetched.calls]))

_lists(st, c, t, env) ==
    Bind(ActiveProfile(st), LAMBDA p :
    IF ~IsNone(p.exc) THEN Failed(st, c, p.exc[1], <<>>)
    ELSE Bind(_get_lists(c, t, p.ret[1], env), LAMBDA g :
    IF ~IsNone(g.exc) THEN Failed(st, g.cache, g.exc[1], g.calls)
    ELSE Done(st, g.cache, [i \in 1..Len(g.ret[1]) |-> list_result(g.ret[1][i])], g.calls)))

\* a resolution that matches by containment alone
_resolve_list_id_contains(c, t, profile, list_name, env) ==
    IF TruthyStr(list_name)
    THEN Bind(_get_lists(c, t, profile, [env EXCEPT !.cancel = "never"]), LAMBDA g :
         IF ~IsNone(g.exc) THEN g
         ELSE
         Bind(Lower(list_name[1]), LAMBDA wanted :
         Bind(SelectSeq(g.ret[1], LAMBDA l : Contains(Lower(l.title), wanted)),
              LAMBDA matches :
         IF Len(matches) = 0
         THEN [cache |-> g.cache, ret |-> None, calls |-> g.calls,
               exc |-> Some(VikunjaApiError("List '" \o list_name[1] \o "' not found", None))]
         ELSE IF Len(matches) > 1
         THEN [cache |-> g.cache, ret |-> None, calls |-> g.calls,
               exc |-> Some(VikunjaApiError("Multiple lists match '" \o list_name[1] \o "'", None))]
         ELSE [cache |-> g.cache, exc |-> None, ret |-> Some(matches[1].id),
               calls |-> g.calls])))
    ELSE IF TruthyInt(profile.default_list_id)
         THEN [cache |-> c, exc |-> None, ret |-> profile.default_list_id, calls |-> <<>>]
         ELSE [cache |-> c, ret |-> None, calls |-> <<>>,
               exc |-> Some(VikunjaApiError("No list specified and no default list configured. Use vik login <profile> --default-list <list_id> or pass --list.", None))]

\* CommandRouter._resolve_list_id: [cache, exc, ret, calls]
_resolve_list_id(c, t, profile, list_name, env) ==
    IF TruthyStr(list_name)
    THEN Bind(_get_lists(c, t, profile, [env EXCEPT !.cancel = "never"]), LAMBDA g :
         IF ~IsNone(g.exc) THEN g
         ELSE
         Bind(Lower(list_name[1]), LAMBDA wanted :
         Bind(SelectSeq(g.ret[1], LAMBDA l : Lower(l.title) = wanted), LAMBDA exact :
         Bind(IF Len(exact) > 0 THEN exact
              ELSE SelectSeq(g.ret[1], LAMBDA l : Contains(Lower(l.title), wanted)),
              LAMBDA matches :
         IF Len(matches) = 0
         THEN [cache |-> g.cache, ret |-> None, calls |-> g.calls,
               exc |-> Some(VikunjaApiError("List '" \o list_name[1] \o "' not found", None))]
         ELSE IF Len(matches) > 1
         THEN [cache |-> g.cache, ret |-> None, calls |-> g.calls,
               exc |-> Some(VikunjaApiError("Multiple lists match '" \o list_name[1] \o "'", None))]
         ELSE [cache |-> g.cache, exc |-> None, ret |-> Some(matches[1].id),
               calls |-> g.calls]))))
    ELSE IF TruthyInt(profile.default_list_id)
         THEN [cache |-> c, exc |-> None, ret |-> profile.default_list_id, calls |-> <<>>]
         ELSE [cache |-> c, ret |-> None, calls |-> <<>>,
               exc |-> Some(VikunjaApiError("No list specified and no default list configured. Use vik login <profile> --default-list <list_id> or pass --list.", None))]

\* an add that forgets to invalidate the list cache
_add_keeps_cache(st, c, t, command, env) ==
    Bind(ActiveProfile(st), LAMBDA p :
    IF ~IsNone(p.exc) THEN Failed(st, c, p.exc[1], <<>>)
    ELSE Bind(_resolve_list_id(c, t, p.ret[1], command.list_name, env), LAMBDA r :
    IF ~IsNone(r.exc) THEN Failed(st, r.cache, r.exc[1], r.calls)
    ELSE
    Bind(IF TruthyStr(command.due) THEN Some(command.due[1] \o "T00:00:00Z") ELSE None,
         LAMBDA due_iso :
    Bind(create_task(p.ret[1], r.ret[1], command.title, command.description, due_iso,
                     env.task),
         LAMBDA k :
    IF ~IsNone(k.exc) THEN Failed(st, r.cache, k.exc[1], r.calls \o k.calls)
    ELSE Done(st, r.cache, <<task_result(k.ret[1])>>, r.calls \o k.calls)))))

_add(st, c, t, command, env) ==
    Bind(ActiveProfile(st), LAMBDA p :
    IF ~IsNone(p.exc) THEN Failed(st, c, p.exc[1], <<>>)
    ELSE Bind(_resolve_list_id(c, t, p.ret[1], command.list_name, env), LAMBDA r :
    IF ~IsNone(r.exc) THEN Failed(st, r.cache, r.exc[1], r.calls)
    ELSE
    Bind(IF TruthyStr(command.due) THEN Some(command.due[1] \o "T00:00:00Z") ELSE None,
         LAMBDA due_iso :
    Bind(create_task(p.ret[1], r.ret[1], command.title, command.description, due_iso,
                     env.task),
         LAMBDA k :
    IF ~IsNone(k.exc) THEN Failed(st, r.cache, k.exc[1], r.calls \o k.calls)
    ELSE Done(st, TTLCache_pop(r.cache, p.ret[1].name).cache, <<task_result(k.ret[1])>>, r.calls \o k.calls)))))

\* page entries that end with a "show more" entry whatever has_more says
PageEntries_always_more(results, next_query, command, empty_entry) ==
    [i \in 1..Len(results.tasks) |-> task_result(results.tasks[i])]
        \o <<show_more_result(command, results.page, next_query)>>

\* the body shared by _find and _due after the command's own request: the
\* entries of a page, the "show more" entry, the entry for an empty result
PageEntries(results, next_query, command, empty_entry) ==
    Bind([i \in 1..Len(results.tasks) |-> task_result(results.tasks[i])]
             \o (IF results.has_more
                 THEN <<show_more_result(command, results.page, next_query)>> ELSE <<>>),
         LAMBDA items :
    IF Len(items) = 0 THEN <<empty_entry>> ELSE items)

\* a find that looks at the token only once the search has returned
_find_calls_first(st, c, command, env) ==
    Bind(ActiveProfile(st), LAMBDA p :
    IF ~IsNone(p.exc) THEN Failed(st, c, p.exc[1], <<>>)
    ELSE Bind(search_tasks(p.ret[1], command.terms, command.page, env.tasks), LAMBDA f :
    IF ~IsNone(f.exc) THEN Failed(st, c, f.exc[1], f.calls)
    ELSE IF IsCancelled(env, 2) THEN Failed(st, c, CancelledError, f.calls)
    ELSE Done(st, c,
              PageEntries(f.ret[1],
                          "vik find " \o command.terms \o " --page " \o IntStr(f.ret[1].page + 1),
                          "find",
                          info_result("No tasks found", "Query: " \o command.terms)),
              f.calls)))

_find(st, c, command, env) ==
    Bind(ActiveProfile(st), LAMBDA p :
    IF ~IsNone(p.exc) THEN Failed(st, c, p.exc[1], <<>>)
    ELSE IF IsCancelled(env, 1) THEN Failed(st, c, CancelledError, <<>>)
    ELSE Bind(search_tasks(p.ret[1], command.terms, command.page, env.tasks), LAMBDA f :
    IF ~IsNone(f.exc) THEN Failed(st, c, f.exc[1], f.calls)
    ELSE IF IsCancelled(env, 2) THEN Failed(st, c, CancelledError, f.calls)
    ELSE Done(st, c,
              PageEntries(f.ret[1],
                          "vik find " \o command.terms \o " --page " \o IntStr(f.ret[1].page + 1),
                          "find",
                          info_result("No tasks found", "Query: " \o command.terms)),
              f.calls)))

_due(st, c, command, env) ==
    Bind(ActiveProfile(st), LAMBDA p :
    IF ~IsNone(p.exc) THEN Failed(st, c, p.exc[1], <<>>)
    ELSE IF IsCancelled(env, 1) THEN Failed(st, c, CancelledError, <<>>)
    ELSE Bind(due_tasks(p.ret[1], command.period, command.page, env.tasks), LAMBDA f :
    IF ~IsNone(f.exc) THEN Failed(st, c, f.exc[1], f.calls)
    ELSE IF IsCancelled(env, 2) THEN Failed(st, c, CancelledError, f.calls)
    ELSE Done(st, c,
              PageEntries(f.ret[1],
                          "vik due " \o command.period \o " --page " \o IntStr(f.ret[1].page + 1),
                          "due",
                          info_result("Nothing due", due_subtitle(command.period))),
              f.calls)))

_done(st, c, command, env) ==
    Bind(ActiveProfile(st), LAMBDA p :
    IF ~IsNone(p.exc) THEN Failed(st, c, p.exc[1], <<>>)
    ELSE Bind(complete_task(p.ret[1], command.task_id, env.task), LAMBDA k :
    IF ~IsNone(k.exc) THEN Failed(st, c, k.exc[1], k.calls)
    ELSE Done(st, c,
              <<info_result("Task completed", "Marked '" \o k.ret[1].title \o "' done")>>,
              k.calls)))

_open(st, c, command, env) ==
    Bind(ActiveProfile(st), LAMBDA p :
    IF ~IsNone(p.exc) THEN Failed(st, c, p.exc[1], <<>>)
    ELSE Bind(get_task(p.ret[1], command.task_id, env.task), LAMBDA k :
    IF ~IsNone(k.exc) THEN Failed(st, c, k.exc[1], k.calls)
    ELSE Done(st, c, <<task_result(k.ret[1])>>, k.calls)))

_help(st, c) ==
    Done(st, c,
         <<info_result("Vikunja Flow",
                       JoinBar(<<"vik login <profile> --url https://host --token <token>",
                                 "vik use <profile>",
                                 "vik add \"Title\" --list \"Inbox\" --due 2024-12-31",
                                 "vik find search terms",
                                 "vik due today|tomorrow|week",
                                 "vik lists",
                                 "vik done <task_id>",
                                 "vik open <task_id>">>))>>,
         <<>>)

\* the except clauses of CommandRouter.handle, in order: the entries returned
\* for a caught exception, or raised |-> TRUE when no clause catches it
Caught(exc) ==
    IF exc.cls = "CancelledError" THEN [raised |-> FALSE, out |-> <<>>]
    ELSE IF exc.cls = "ProfileNotFoundError"
    THEN [raised |-> FALSE, out |-> <<error_result("Profile not found", exc.msg)>>]
    ELSE IF exc.cls = "VikunjaApiError"
    THEN [raised |-> FALSE,
          out |-> <<error_result(exc.msg,
                     IF exc.status \in {Some(401), Some(403)}
                     THEN "Access denied. Refresh token with 'vik login <profile> --token <token>'."
                     ELSE IF exc.status \in {None, Some(0)}
                     THEN "Check your network connection or TLS settings."
                     ELSE "")>>]
    ELSE IF exc.cls = "RuntimeError"
    THEN [raised |-> FALSE, out |-> <<error_result("Secure storage error", exc.msg)>>]
    ELSE IF exc.cls = "URLError"
    THEN [raised |-> FALSE,
          out |-> IF exc.msg = "SSLCertVerificationError"
                  THEN <<error_result("TLS validation failed",
                                      "Disable with --verify-tls false if you trust the host.")>>
                  ELSE <<error_result("Network error", exc.msg)>>]
    ELSE IF exc.cls = "ParseError"
    THEN [raised |-> FALSE, out |-> <<error_result("Invalid command", exc.msg)>>]
    ELSE [raised |-> TRUE, out |-> <<>>]

\* the dispatch of handle on the parsed command's type
Dispatch(st, c, t, cmd, env) ==
    IF cmd.type = "help" THEN _help(st, c)
    ELSE IF cmd.type = "login" THEN _login(st, c, cmd, env)
    ELSE IF cmd.type = "use" THEN _use(st, c, cmd, env)
    ELSE IF cmd.type = "lists" THEN _lists(st, c, t, env)
    ELSE IF cmd.type = "add" THEN _add(st, c, t, cmd, env)
    ELSE IF cmd.type = "find" THEN _find(st, c, cmd, env)
    ELSE IF cmd.type = "due" THEN _due(st, c, cmd, env)
    ELSE IF cmd.type = "done" THEN _done(st, c, cmd, env)
    ELSE IF cmd.type = "open" THEN _open(st, c, cmd, env)
    ELSE _help(st, c)

\* the end of handle for a command that returned or raised: r is what the
\* command gave, [store, cache, exc, ret, calls]
Returned(cmd, r) ==
    IF ~IsNone(r.exc)
    THEN Bind(Caught(r.exc[1]), LAMBDA caught :
         [store |-> r.store, cache |-> r.cache, cmd |-> cmd, exc |-> r.exc,
          raised |-> caught.raised, out |-> caught.out, calls |-> r.calls])
    ELSE [store |-> r.store, cache |-> r.cache, cmd |-> cmd, exc |-> None,
          raised |-> FALSE, out |-> r.ret, calls |-> r.calls]

\* the body of handle once parse_query has returned or raised
Parsed_then(st, c, t, parsed, env) ==
    IF ~IsNone(parsed.exc)
    THEN Returned(None, Failed(st, c, Exc(parsed.exc[1], parsed.msg), <<>>))
    ELSE Returned(Some(parsed.cmd), Dispatch(st, c, t, parsed.cmd, env))

\* CommandRouter.handle: [store, cache, cmd, exc, raised, out, calls].  exc is
\* the exception the command ended with, caught or not; raised tells that it
\* left handle; out is the list returned otherwise.
handle(st, c, t, raw_query, env) ==
    Parsed_then(st, c, t,
                IF raw_query \in Queries THEN ParsedQueries[raw_query]
                ELSE parse_query(raw_query),
                env)

-----------------------------------------------------------------------------
(* The store as the module's state *)

Store == [profiles |-> profiles, active |-> active, secrets |-> secrets, disk |-> disk]

SetStore(st) ==
    /\ profiles' = st.profiles
    /\ active' = st.active
    /\ secrets' = st.secrets
    /\ disk' = st.disk

NoOp == [op |-> "init", name |-> "", exc |-> None]

-----------------------------------------------------------------------------
(* Direct calls on a ProfilesStore, from an empty store                     *)

StoreNames == {"", "a"}

StoreUrls == {"h", "h/", "g//"}

StoreTokens == {None, Some(""), Some("t1"), Some("t2")}

\* the Profile objects handed to save_profile
StoreProfiles ==
    [name : StoreNames, base_url : StoreUrls, auth_method : {"token"},
     verify_tls : {TRUE}, default_list_id : {Some(5)}, token : StoreTokens]

\* the host threads that may call VikunjaFlowPlugin.query, and the number of
\* queries they make in all
MaxThreads == 3

MaxQueries == 3

Threads == 1..MaxThreads

\* no query is running
PluginIdle ==
    /\ _active_token = None
    /\ cancel_tokens = <<>>
    /\ threads = [t \in Threads |-> [pc |-> "idle", token |-> None, exc |-> None]]

PluginUnchanged == UNCHANGED <<_active_token, cancel_tokens, threads>>

OtherUnchanged == UNCHANGED <<cache, now, hist>> /\ PluginUnchanged

InitStore ==
    /\ profiles = EmptyStore.profiles
    /\ active = EmptyStore.active
    /\ secrets = EmptyStore.secrets
    /\ disk = EmptyStore.disk
    /\ cache = <<>>
    /\ now = 0
    /\ hist = <<>>
    /\ last = NoOp
    /\ PluginIdle

StoreSave ==
    \E p \in StoreProfiles, fails \in BOOLEAN :
        LET tok == p.token
            r == save_profile(Store, p, tok, fails) IN
        /\ SetStore(r.st)
        /\ last' = [op |-> "save_profile", name |-> p.name, exc |-> r.exc,
                    base_url |-> p.base_url, token |-> tok]
        /\ OtherUnchanged

StoreSetActive ==
    \E n \in StoreNames :
        LET r == set_active(Store, n) IN
        /\ SetStore(r.st)
        /\ last' = [op |-> "set_active", name |-> n, exc |-> r.exc]
        /\ OtherUnchanged

StoreRemove ==
    \E n \in StoreNames :
        LET r == remove_profile(Store, n) IN
        /\ SetStore(r.st)
        /\ last' = [op |-> "remove_profile", name |-> n, exc |-> r.exc]
        /\ OtherUnchanged

StoreGet ==
    \E n \in StoreNames :
        LET r == get_profile(Store, n, TRUE) IN
        /\ SetStore(r.st)
        /\ last' = [op |-> "get_profile", name |-> n, exc |-> r.exc, ret |-> r.ret]
        /\ OtherUnchanged

NextStore == StoreSave \/ StoreSetActive \/ StoreRemove \/ StoreGet

SpecStore == InitStore /\ [][NextStore]_vars

-----------------------------------------------------------------------------
(* Properties of the profile store, under SpecStore *)

RecordFields == {"base_url", "auth_method", "verify_tls", "default_list_id"}

\* C4: in every state reachable from an empty store by save_profile, set_active
\* and remove_profile calls, successful or failing, the active-profile pointer
\* is none or the name of a profile in the store.
C4_ActiveReferencesProfile ==
    IsNone(active) \/ DictHas(profiles, active[1])

\* C4 witness: the active profile was removed while another profile remained,
\* and the pointer moved to it.
C4_Witness ==
    /\ last.op = "remove_profile"
    /\ IsNone(last.exc)
    /\ ~IsNone(active)
    /\ active # Some(last.name)

\* C5: every persisted profile record holds exactly base_url, auth_method,
\* verify_tls and default_list_id, no field of it carries a stored token, every
\* secret is kept under a key "<name>::token", and a saved token is found under
\* the key of its profile.
C5_SecretNotInRecord ==
    /\ \A i \in 1..Len(disk.profiles) :
          /\ DOMAIN disk.profiles[i].val = RecordFields
          /\ \A f \in {"base_url", "auth_method"}, j \in 1..Len(secrets) :
                disk.profiles[i].val[f] # secrets[j].val
    /\ \A i \in 1..Len(profiles) : DOMAIN profiles[i].val = RecordFields
    /\ \A j \in 1..Len(secrets) :
          \E n \in StoreNames : secrets[j].key = n \o "::token"
    /\ (last.op = "save_profile" /\ IsNone(last.exc) /\ TruthyStr(last.token))
          => DictGet(secrets, last.name \o "::token") = last.token

\* C5 witness: a profile was saved with a token and its record persisted.
C5_Witness ==
    /\ last.op = "save_profile"
    /\ IsNone(last.exc)
    /\ TruthyStr(last.token)
    /\ DictHas(disk.profiles, last.name)
    /\ DictHas(secrets, last.name \o "::token")

RECURSIVE Slashes(_)
Slashes(k) == IF k = 0 THEN "" ELSE "/" \o Slashes(k - 1)

SavedWithToken ==
    /\ last.op = "save_profile"
    /\ IsNone(last.exc)
    /\ TruthyStr(last.token)

\* C6 as stated: after save_profile with a non-empty token, get_profile of the
\* same name returns the base_url and the token that were saved, for every
\* base_url.
C6_RoundTripIdentical ==
    SavedWithToken =>
        LET got == get_profile(Store, last.name, TRUE) IN
        /\ IsNone(got.exc)
        /\ got.ret[1].base_url = last.base_url
        /\ got.ret[1].token = last.token

\* C6 amended: after save_profile with a non-empty token, get_profile of the
\* same name returns the saved token, and the saved base_url with its trailing
\* slashes removed: the loaded base_url ends with no slash and the saved one is
\* the loaded one followed by zero or more slashes.
C6_RoundTripStripped ==
    SavedWithToken =>
        LET got == get_profile(Store, last.name, TRUE) IN
        /\ IsNone(got.exc)
        /\ got.ret[1].token = last.token
        /\ LET b == got.ret[1].base_url IN
           /\ Len(b) = 0 \/ CharAt(b, Len(b)) # "/"
           /\ \E k \in 0..Len(last.base_url) : last.base_url = b \o Slashes(k)

\* C6 witness: a profile whose base_url ends with a slash was saved with a token.
C6_Witness ==
    /\ SavedWithToken
    /\ CharAt(last.base_url, Len(last.base_url)) = "/"

\* C7: directly after set_active(name) of an existing profile,
\* active_profile_name() is name, and one more set_active(name) succeeds and
\* leaves the store (profiles, pointer, secrets, persisted document) as it is.
C7_SetActiveIdempotent ==
    (last.op = "set_active" /\ IsNone(last.exc)) =>
        /\ active_profile_name(Store) = Some(last.name)
        /\ IsNone(set_active(Store, last.name).exc)
        /\ set_active(Store, last.name).st = Store

\* C7 witness: set_active succeeded in a store of two profiles.
C7_Witness ==
    /\ last.op = "set_active"
    /\ IsNone(last.exc)
    /\ Len(profiles) = 2

-----------------------------------------------------------------------------
(* Direct calls on a TTLCache as the clock advances *)

CacheKeys == {"a", "b"}

\* ListSummary values
Inbox == [id |-> 1, title |-> "Inbox"]

CacheValues == {<<>>, <<Inbox>>}

StoreUnchanged == UNCHANGED <<profiles, active, secrets, disk>>

InitCache ==
    /\ profiles = EmptyStore.profiles
    /\ active = EmptyStore.active
    /\ secrets = EmptyStore.secrets
    /\ disk = EmptyStore.disk
    /\ cache = <<>>
    /\ now = 0
    /\ hist = <<>>
    /\ last = NoOp
    /\ PluginIdle

CacheSet ==
    \E k \in CacheKeys, v \in CacheValues :
        /\ cache' = TTLCache_set(cache, k, v, now).cache
        /\ hist' = DictPut(hist, k, [t |-> now, value |-> v])
        /\ last' = [op |-> "cache_set", name |-> k, exc |-> None]
        /\ UNCHANGED now
        /\ StoreUnchanged
        /\ PluginUnchanged

CacheGet ==
    \E k \in CacheKeys :
        LET r == TTLCache_get(cache, k, now) IN
        /\ cache' = r.cache
        /\ last' = [op |-> "cache_get", name |-> k, exc |-> None, ret |-> r.ret]
        /\ UNCHANGED <<now, hist>>
        /\ StoreUnchanged
        /\ PluginUnchanged

CachePop ==
    \E k \in CacheKeys :
        LET r == TTLCache_pop(cache, k) IN
        /\ cache' = r.cache
        /\ hist' = DictDel(hist, k)
        /\ last' = [op |-> "cache_pop", name |-> k, exc |-> None, ret |-> r.ret]
        /\ UNCHANGED now
        /\ StoreUnchanged
        /\ PluginUnchanged

\* time.time() advances between calls
Tick ==
    /\ now < MaxClock
    /\ now' = now + 1
    /\ last' = [op |-> "tick", name |-> "", exc |-> None]
    /\ UNCHANGED <<cache, hist>>
    /\ StoreUnchanged
    /\ PluginUnchanged

NextCache == CacheSet \/ CacheGet \/ CachePop \/ Tick

SpecCache == InitCache /\ [][NextCache]_vars

\* C8: after set(key, value) at time t with no later set or pop of the key, a
\* get(key) at a time up to and including t + ttl returns that value (the empty
\* list too), and a get(key) at a time greater than t + ttl returns absent and
\* leaves no entry for the key in the store.
C8_TtlExpiry ==
    (last.op = "cache_get" /\ DictHas(hist, last.name)) =>
        LET h == DictGet(hist, last.name)[1] IN
        IF now <= h.t + CacheTtl
        THEN last.ret = Some(h.value)
        ELSE IsNone(last.ret) /\ ~DictHas(cache, last.name)

\* C8 witness: an empty list set at time t was read at exactly t + ttl.
C8_Witness ==
    /\ last.op = "cache_get"
    /\ DictHas(hist, last.name)
    /\ DictGet(hist, last.name)[1].value = <<>>
    /\ now = DictGet(hist, last.name)[1].t + CacheTtl
    /\ last.ret = Some(<<>>)

\* an entry read after its ttl was evicted
C8_WitnessExpired ==
    /\ last.op = "cache_get"
    /\ DictHas(hist, last.name)
    /\ now > DictGet(hist, last.name)[1].t + CacheTtl
    /\ IsNone(last.ret)

-----------------------------------------------------------------------------
(* The router driven by queries, with the transport, the secret backend and *)
(* the caller's cancellation as inputs                                      *)

Http(status, msg) == [kind |-> "http", status |-> status, msg |-> msg]

UrlError(reason) == [kind |-> "urlerror", reason |-> reason]

Timeout == [kind |-> "timeout"]

NotJson ==
    [kind |-> "ok", status |-> 200, body |-> [empty |-> FALSE, json |-> FALSE], headers |-> <<>>]

EmptyBody ==
    [kind |-> "ok", status |-> 200, body |-> [empty |-> TRUE], headers |-> <<>>]

\* answers that fail whatever the endpoint
TaskJson == [id |-> 7, title |-> "Buy milk", list_id |-> 1, done |-> FALSE]

\* the tasks of the server, in the order it lists them
TaskJsons == <<TaskJson, [id |-> 8, title |-> "Pay rent", done |-> TRUE]>>

\* a page of the first n tasks with the pagination headers page and total_pages
PageResponse(n, page, total_pages) ==
    [kind |-> "ok", status |-> 200,
     body |-> [empty |-> FALSE, json |-> TRUE, data |-> SubSeq(TaskJsons, 1, n)],
     headers |-> [page |-> page, total_pages |-> total_pages]]

DefaultEnv ==
    [login |-> OkResponse([token |-> "m"]),
     user |-> OkResponse([id |-> 1]),
     lists |-> OkResponse(<<Inbox>>),
     task |-> OkResponse(TaskJson),
     tasks |-> PageResponse(1, "1", "1"),
     secretFails |-> FALSE,
     cancel |-> "never"]

UserResponses ==
    {OkResponse([id |-> 1]), OkResponse([id |-> 0]), Http(401, "Unauthorized"), NotJson}

LoginResponses ==
    {OkResponse([token |-> "m"]), EmptyBody, Http(401, "Wrong password")}

ListsResponses ==
    {OkResponse(<<Inbox>>), Http(500, "Server error"), NotJson}

TaskResponses ==
    {OkResponse(TaskJson), OkResponse([title |-> "no id"]), Http(500, "Server error")}

TasksResponses ==
    {PageResponse(2, "1", "2"), PageResponse(2, "2", "2"), PageResponse(1, "3", "2"),
     PageResponse(0, "1", "1"), PageResponse(0, "1", "2"),
     Http(403, "Forbidden"), Timeout}

CancelTimes == {"never", "before", "after"}

\* the answer env holds for a request
Reply(env, request) ==
    IF request = "POST /auth/login" THEN env.login
    ELSE IF request = "GET /user" THEN env.user
    ELSE IF request = "GET /lists" THEN env.lists
    ELSE IF StartsWith(request, "GET /tasks/all?") THEN env.tasks
    ELSE env.task

\* hist after handle gave r under env, when the fetches of lists commands are
\* followed: a lists that fetched and returned records the time and the lists
\* of the answer for the active profile, a login forgets the profile it
\* names, an add forgets the active profile
Remembered(env, r) ==
    IF IsNone(r.cmd) THEN hist
    ELSE IF r.cmd[1].type = "lists" /\ IsNone(r.exc) /\ r.calls = <<"GET /lists">>
    THEN DictPut(hist, active[1],
                 [t |-> now, value |-> ListSummaries(_read_json(env.lists).data).ret[1]])
    ELSE IF r.cmd[1].type = "login" THEN DictDel(hist, r.cmd[1].profile)
    ELSE IF r.cmd[1].type = "add" /\ TruthyStr(active) THEN DictDel(hist, active[1])
    ELSE hist

\* the state after handle(raw_query) gave r under env.  last keeps the call:
\* the query, what handle gave, cancel, when the caller cancelled the token,
\* replies, the answer to each request of calls, and before, the active pointer and the cached keys of the state it started
\* from
Handled(raw_query, env, r, h) ==
    /\ SetStore(r.store)
    /\ cache' = r.cache
    /\ last' = [op |-> "handle",
                name |-> IF IsNone(r.cmd) THEN "" ELSE r.cmd[1].type,
                query |-> raw_query,
                exc |-> r.exc, cmd |-> r.cmd, raised |-> r.raised, out |-> r.out,
                calls |-> r.calls, cancel |-> env.cancel,
                replies |-> [i \in 1..Len(r.calls) |-> Reply(env, r.calls[i])],
                before |-> [active |-> active, cached |-> DictKeys(cache)]]
    /\ hist' = h
    /\ UNCHANGED now
    /\ PluginUnchanged

\* one call of CommandRouter.handle
Handle(raw_query, env) ==
    Handled(raw_query, env, handle(Store, cache, now, raw_query, env), hist)

Init ==
    /\ profiles = EmptyStore.profiles
    /\ active = EmptyStore.active
    /\ secrets = EmptyStore.secrets
    /\ disk = EmptyStore.disk
    /\ cache = <<>>
    /\ now = 0
    /\ hist = <<>>
    /\ last = NoOp
    /\ PluginIdle

LoginWithToken ==
    \E q \in TokenLoginQueries, u \in UserResponses :
        Handle(q, [DefaultEnv EXCEPT !.user = u])

LoginWithPassword ==
    \E q \in PasswordLoginQueries, l \in LoginResponses, f \in BOOLEAN :
        Handle(q, [DefaultEnv EXCEPT !.login = l, !.secretFails = f])

Use == \E q \in UseQueries : Handle(q, DefaultEnv)

Lists ==
    \E q \in ListsQueries, l \in ListsResponses, k \in CancelTimes :
        Handle(q, [DefaultEnv EXCEPT !.lists = l, !.cancel = k])

Add ==
    \E q \in AddQueries, l \in {OkResponse(<<Inbox>>), Http(500, "Server error")},
       x \in {OkResponse(TaskJson), UrlError("ConnectionRefusedError")} :
        Handle(q, [DefaultEnv EXCEPT !.lists = l, !.task = x])

Find ==
    \E q \in FindQueries, x \in TasksResponses, k \in CancelTimes :
        Handle(q, [DefaultEnv EXCEPT !.tasks = x, !.cancel = k])

Due ==
    \E q \in DueQueries, k \in CancelTimes :
        Handle(q, [DefaultEnv EXCEPT !.cancel = k])

DoneTask ==
    \E q \in DoneQueries, x \in TaskResponses :
        Handle(q, [DefaultEnv EXCEPT !.task = x])

Open ==
    \E q \in OpenQueries, x \in TaskResponses :
        Handle(q, [DefaultEnv EXCEPT !.task = x])

Help == \E q \in HelpQueries : Handle(q, DefaultEnv)

Next ==
    \/ LoginWithToken
    \/ LoginWithPassword
    \/ Use
    \/ Lists
    \/ Add
    \/ Find
    \/ Due
    \/ DoneTask
    \/ Open
    \/ Help
    \/ Tick

Spec == Init /\ [][Next]_vars


-----------------------------------------------------------------------------
(* Properties of the router, under Spec *)

\* the last step was a handle of a command of this type
Handled_as(type) == last.op = "handle" /\ last.name = type

Sent(calls, request) == \E i \in 1..Len(calls) : calls[i] = request

\* the answer l got to a request it sent
ReplyTo(l, request) == l.replies[CHOOSE i \in 1..Len(l.calls) : l.calls[i] = request]

\* C1: handle never lets an exception reach its caller: whatever the query
\* and whatever the stores and the client do, it returns a list.
C1_HandleNeverRaises == last.op = "handle" => ~last.raised

\* l is a login whose GET /user was sent and answered with a falsy id, so that
\* verify_token returned false
VerifyReturnedFalse(l) ==
    /\ l.op = "handle"
    /\ l.name = "login"
    /\ Sent(l.calls, "GET /user")
    /\ ReplyTo(l, "GET /user").kind = "ok"
    /\ IsNone(_read_json(ReplyTo(l, "GET /user")).exc)
    /\ ~TruthyJson(JsonGet(_read_json(ReplyTo(l, "GET /user")).data, "id"))

\* C2: a login whose token check returns false leaves the profile set, the
\* active pointer, the secret store, the persisted document and the list cache
\* as they were, and returns the single error entry of an API error with
\* status 401, carrying the access-denied hint.
C2_FailedVerifyChangesNothing ==
    [][VerifyReturnedFalse(last') =>
        /\ UNCHANGED <<profiles, active, secrets, disk, cache>>
        /\ last'.exc = Some(VikunjaApiError("Unable to verify token", Some(401)))
        /\ ~last'.raised
        /\ last'.out =
             <<error_result("Unable to verify token",
                            "Access denied. Refresh token with 'vik login <profile> --token <token>'.")>>]_vars

\* C2 witness: the token check returned false on a login for a profile that is
\* not the active one and whose lists are cached: the pointer was not
\* switched and the cache entry is still there.
C2_Witness ==
    /\ VerifyReturnedFalse(last)
    /\ ~IsNone(active)
    /\ active[1] # last.cmd[1].profile
    /\ DictHas(cache, last.cmd[1].profile)

\* the last step was a login that returned its "Profile saved" entry
LoginSucceeded == Handled_as("login") /\ IsNone(last.exc)

\* the token a login resolved: the one minted by POST /auth/login when both
\* a user name and a password were given, the --token value otherwise
ResolvedToken(l) ==
    IF TruthyStr(l.cmd[1].username) /\ TruthyStr(l.cmd[1].password)
    THEN JsonGet(_read_json(ReplyTo(l, "POST /auth/login")).data, "token")
    ELSE l.cmd[1].token

\* C3: after a login that succeeds the named profile is in the profile set and
\* in the persisted document, its token is in the secret store, the active
\* pointer names it, and the list cache has no entry for it.
C3_LoginSucceeded ==
    LoginSucceeded =>
        LET name == last.cmd[1].profile IN
        /\ DictHas(profiles, name)
        /\ DictHas(disk.profiles, name)
        /\ get_secret(Store, _credential_key(name)) = ResolvedToken(last)
        /\ TruthyStr(ResolvedToken(last))
        /\ active = Some(name)
        /\ disk.active = Some(name)
        /\ ~DictHas(cache, name)
        /\ last.out = <<info_result("Profile saved", "Active profile: " \o name)>>

\* C3 witness: a login succeeded while another profile was active and the
\* lists of the named profile were cached.
C3_Witness ==
    /\ LoginSucceeded
    /\ ~IsNone(last.before.active)
    /\ last.before.active[1] # last.cmd[1].profile
    /\ last.cmd[1].profile \in last.before.cached

\* the last step was a done that completed its task
DoneSucceeded == Handled_as("done") /\ IsNone(last.exc)

\* C9: after a done that completes a task the list cache holds no entry for
\* the active profile.
C9_DoneInvalidates == DoneSucceeded => ~DictHas(cache, active[1])

\* the last step was an add that created its task
AddSucceeded == Handled_as("add") /\ IsNone(last.exc)

\* C10: after an add that creates a task, with or without --list, the list
\* cache holds no entry for the active profile.
C10_AddInvalidates == AddSucceeded => ~DictHas(cache, active[1])

\* C10 witness: an add with --list found nothing cached, fetched the lists to
\* resolve the name and so cached them, and created the task.
C10_Witness ==
    /\ AddSucceeded
    /\ TruthyStr(last.cmd[1].list_name)
    /\ active[1] \notin last.before.cached
    /\ Sent(last.calls, "GET /lists")
    /\ Len(last.calls) = 2

\* l is a find, a due or a lists that got as far as its first checkpoint from
\* the state st, c, t: a profile is active and, for lists, its lists are not
\* served from the cache
AtFirstCheckpoint(l, st, c, t) ==
    /\ l.op = "handle"
    /\ l.name \in {"find", "due", "lists"}
    /\ IsNone(ActiveProfile(st).exc)
    /\ l.name = "lists" => IsNone(TTLCache_get(c, ActiveProfile(st).ret[1].name, t).ret)

\* the client call between the two checkpoints of l, made again with the
\* answer l got
CallBetweenCheckpoints(l, st) ==
    IF l.name = "find"
    THEN search_tasks(ActiveProfile(st).ret[1], l.cmd[1].terms, l.cmd[1].page, l.replies[1])
    ELSE IF l.name = "due"
    THEN due_tasks(ActiveProfile(st).ret[1], l.cmd[1].period, l.cmd[1].page, l.replies[1])
    ELSE get_lists(ActiveProfile(st).ret[1], l.replies[1])

\* l passed its first checkpoint and its client call returned, so that the
\* second checkpoint was looked at
AtSecondCheckpoint(l, st, c, t) ==
    /\ AtFirstCheckpoint(l, st, c, t)
    /\ l.cancel # "before"
    /\ Len(l.replies) = 1
    /\ IsNone(CallBetweenCheckpoints(l, st).exc)

\* C11: in find, due and a lists that fetches, a token found cancelled at the
\* checkpoint before the network call means that no request is sent, and a
\* token found cancelled at either checkpoint means that handle returns the
\* empty list, no error entry, and raises nothing.
C11_CancellationSilent ==
    [][/\ (AtFirstCheckpoint(last', Store, cache, now) /\ last'.cancel = "before") =>
             /\ last'.calls = <<>>
             /\ last'.out = <<>>
             /\ ~last'.raised
       /\ (AtSecondCheckpoint(last', Store, cache, now) /\ last'.cancel = "after") =>
             /\ last'.out = <<>>
             /\ ~last'.raised]_vars

\* C11 witness: a find whose search was sent and answered with a page of tasks
\* found its token cancelled at the second checkpoint and returned nothing.
C11_Witness ==
    /\ Handled_as("find")
    /\ last.cancel = "after"
    /\ Len(last.calls) = 1
    /\ last.replies[1].kind = "ok"
    /\ last.exc = Some(CancelledError)
    /\ last.out = <<>>

\* a lists that had to fetch found its token cancelled before the request
C11_WitnessBefore ==
    /\ Handled_as("lists")
    /\ last.cancel = "before"
    /\ last.exc = Some(CancelledError)
    /\ last.calls = <<>>

\* l is a find that was not cancelled and whose search was answered with a
\* list of tasks and numeric pagination headers
FindAnswered(l) ==
    /\ l.op = "handle"
    /\ l.name = "find"
    /\ l.cancel = "never"
    /\ Len(l.replies) = 1
    /\ l.replies[1].kind = "ok"
    /\ IsNone(_read_json(l.replies[1]).exc)
    /\ IsNone(PaginationFromHeaders(l.replies[1].headers).exc)
    /\ \A i \in 1..Len(l.replies[1].body.data) : "id" \in DOMAIN l.replies[1].body.data[i]

\* the tasks, the page and the number of pages of the answer to l
AnsweredTasks(l) == l.replies[1].body.data

AnsweredPage(l) == PaginationFromHeaders(l.replies[1].headers).ret[1].page

AnsweredTotalPages(l) == PaginationFromHeaders(l.replies[1].headers).ret[1].total_pages

\* out is the entries of the tasks of l's answer in the order of the answer,
\* followed by one "show more" entry if more is TRUE and by nothing otherwise
TasksThenMore(l, out, more) ==
    LET n == Len(AnsweredTasks(l)) IN
    /\ Len(out) = n + (IF more THEN 1 ELSE 0)
    /\ \A i \in 1..n :
          out[i] = task_result(_task_from_payload(AnsweredTasks(l)[i],
                                                  ActiveProfile(Store).ret[1]).ret[1])
    /\ more => out[n + 1].via = "show_more_result"

\* C13 as stated: a find that is not cancelled and whose answer carries n
\* tasks returns the n task entries in the order of the answer, followed by
\* exactly one "show more" entry when the answer's page is less than its
\* total_pages and by no "show more" entry otherwise.
C13_FindPage_AsStated ==
    FindAnswered(last) =>
        TasksThenMore(last, last.out, AnsweredPage(last) < AnsweredTotalPages(last))

\* C13: as above, except that an answer with no task whose page is not less
\* than its total_pages gives the single "No tasks found" entry.
C13_FindPage ==
    FindAnswered(last) =>
        IF Len(AnsweredTasks(last)) = 0 /\ AnsweredPage(last) >= AnsweredTotalPages(last)
        THEN last.out = <<info_result("No tasks found", "Query: " \o last.cmd[1].terms)>>
        ELSE TasksThenMore(last, last.out, AnsweredPage(last) < AnsweredTotalPages(last))

\* C13 witness: a find was answered with two tasks on page 1 of 2 and
\* returned three entries.
C13_Witness ==
    /\ FindAnswered(last)
    /\ Len(AnsweredTasks(last)) = 2
    /\ AnsweredPage(last) < AnsweredTotalPages(last)
    /\ Len(last.out) = 3

\* a find was answered with tasks on a page past the last one
C13_WitnessLastPage ==
    /\ FindAnswered(last)
    /\ Len(AnsweredTasks(last)) > 0
    /\ AnsweredPage(last) > AnsweredTotalPages(last)
    /\ Len(last.out) = Len(AnsweredTasks(last))

\* C15: a find that is not cancelled and whose answer carries no task returns
\* exactly one entry, the informational "No tasks found" entry, whatever the
\* pagination headers of the answer say.
C15_NoTasksFound ==
    (FindAnswered(last) /\ Len(AnsweredTasks(last)) = 0) =>
        last.out = <<info_result("No tasks found", "Query: " \o last.cmd[1].terms)>>

\* an empty page 1 of 1 gave the "No tasks found" entry
C15_WitnessLastPage ==
    /\ FindAnswered(last)
    /\ Len(AnsweredTasks(last)) = 0
    /\ AnsweredPage(last) >= AnsweredTotalPages(last)
    /\ last.out[1].Title = "No tasks found"

\* an empty page 1 of 2 gave a "show more" entry and nothing else
C15_WitnessOnlyShowMore ==
    /\ FindAnswered(last)
    /\ Len(AnsweredTasks(last)) = 0
    /\ Len(last.out) = 1
    /\ last.out[1].via = "show_more_result"

\* the commands that work on the active profile
ProfileCommands == {"lists", "add", "find", "due", "done", "open"}

\* C16: when no profile is active, each of lists, add, find, due, done and
\* open returns exactly one "Profile not found" entry, sends no request and
\* leaves the profile store, the secret store and the list cache unchanged.
C16_NoActiveProfile ==
    [][(/\ last'.op = "handle"
        /\ last'.name \in ProfileCommands
        /\ ~TruthyStr(active)) =>
          /\ ~last'.raised
          /\ last'.out = <<error_result("Profile not found",
                                        KeyErrorStr("No active profile configured"))>>
          /\ last'.calls = <<>>
          /\ UNCHANGED <<profiles, active, secrets, disk, cache>>]_vars

\* C16 witness: an add with --list was refused for want of an active profile
\* although a profile is stored.
C16_Witness ==
    /\ Handled_as("add")
    /\ TruthyStr(last.cmd[1].list_name)
    /\ IsNone(last.before.active)
    /\ Len(profiles) > 0
    /\ last.out[1].Title = "Profile not found"

\* a find whose token was cancelled was refused for want of an active profile
C16_WitnessCancelled ==
    /\ Handled_as("find")
    /\ last.cancel = "before"
    /\ IsNone(last.before.active)
    /\ Len(last.out) = 1

-----------------------------------------------------------------------------
(* The router driven by the commands that read or drop the list cache, with *)
(* hist following the fetches of the lists commands                         *)

FollowedTo(raw_query, env, r) == Handled(raw_query, env, r, Remembered(env, r))

Followed(raw_query, env) ==
    FollowedTo(raw_query, env, handle(Store, cache, now, raw_query, env))

\* the lists the server answers with: one list, none, and another one later
Work == [id |-> 2, title |-> "Work"]

CachedListsResponses ==
    {OkResponse(<<Inbox>>), OkResponse(<<>>), OkResponse(<<Inbox, Work>>),
     Http(500, "Server error")}

CacheLogin ==
    \E q \in CacheLoginQueries,
       u \in {OkResponse([id |-> 1]), OkResponse([id |-> 0])} :
        Followed(q, [DefaultEnv EXCEPT !.user = u])

CacheUse == \E q \in {"use w", "use h"} : Followed(q, DefaultEnv)

CacheLists ==
    \E l \in CachedListsResponses, k \in CancelTimes :
        Followed("lists", [DefaultEnv EXCEPT !.lists = l, !.cancel = k])

CacheAdd ==
    \E q \in {"add Milk", "add Milk --list inbox"},
       x \in {OkResponse(TaskJson), UrlError("ConnectionRefusedError")} :
        Followed(q, [DefaultEnv EXCEPT !.task = x])

NextLists == CacheLogin \/ CacheUse \/ CacheLists \/ CacheAdd \/ Tick

SpecLists == Init /\ [][NextLists]_vars

\* the entries of a lists command that returns the lists ls
ListEntries(ls) == [i \in 1..Len(ls) |-> list_result(ls[i])]

\* the next step is a lists command that is not cancelled, for an active
\* profile
ListsStep == last'.op = "handle" /\ last'.name = "lists" /\ last'.cancel = "never"
                 /\ TruthyStr(active)

\* the active profile's lists were fetched by a lists command at most one ttl
\* ago, with no login or add for the profile since
FetchedWithinTtl ==
    /\ DictHas(hist, active[1])
    /\ now <= DictGet(hist, active[1])[1].t + CacheTtl

\* C17: over lists commands for the same active profile that all fall within
\* one ttl of the first fetch, with no login or add for the profile in between
\* and no cancellation, the router sends exactly one GET /lists, on the first
\* command, which finds nothing cached for the profile (whose token is
\* stored), and every command returns the lists of that fetch.
C17_ListsServedFromCache ==
    [][ListsStep =>
         /\ FetchedWithinTtl =>
               /\ last'.calls = <<>>
               /\ ~last'.raised
               /\ last'.out = ListEntries(DictGet(hist, active[1])[1].value)
         /\ (~DictHas(cache, active[1]) /\ TruthyStr(ActiveProfile(Store).ret[1].token)) =>
               /\ last'.calls = <<"GET /lists">>
               /\ IsNone(last'.exc) =>
                     last'.out = ListEntries(ListSummaries(_read_json(last'.replies[1]).data).ret[1])]_vars

\* C17 witness: a lists command one ttl after the fetch, with another answer
\* waiting at the server, returned the empty list of lists of that fetch
\* without a request.
C17_Witness ==
    /\ Handled_as("lists")
    /\ last.cancel = "never"
    /\ DictHas(hist, active[1])
    /\ now = DictGet(hist, active[1])[1].t + CacheTtl
    /\ DictGet(hist, active[1])[1].value = <<>>
    /\ last.calls = <<>>
    /\ last.out = <<>>

\* a lists command later than one ttl after the fetch fetched again
C17_WitnessExpired ==
    /\ Handled_as("lists")
    /\ DictHas(hist, active[1])
    /\ DictGet(hist, active[1])[1].t = now
    /\ now > CacheTtl
    /\ last.calls = <<"GET /lists">>

RefreshHint == "Access denied. Refresh token with 'vik login <profile> --token <token>'."

ConnectivityHint == "Check your network connection or TLS settings."

\* the last handle ended with an API error
EndedWithApiError ==
    /\ last.op = "handle"
    /\ ~IsNone(last.exc)
    /\ last.exc[1].cls = "VikunjaApiError"

\* the last request of l got no HTTP answer: the connection failed or timed out
TransportFailure(l) ==
    /\ Len(l.calls) > 0
    /\ l.replies[Len(l.replies)].kind \in {"urlerror", "timeout"}

\* the hint an API error gets from its status code
C19_HintByStatus ==
    EndedWithApiError =>
        /\ ~last.raised
        /\ last.out =
             <<error_result(last.exc[1].msg,
                            IF last.exc[1].status \in {Some(401), Some(403)} THEN RefreshHint
                            ELSE IF IsNone(last.exc[1].status) THEN ConnectivityHint
                            ELSE "")>>

\* C19: an API error with status 401 or 403 gives the entry with the
\* refresh-token hint, one with no status code the entry with the
\* connectivity hint, one with another status code an entry with neither; and
\* the connectivity hint is given only for transport-level failures.
C19_ErrorHints ==
    /\ C19_HintByStatus
    /\ (/\ last.op = "handle"
        /\ \E i \in 1..Len(last.out) : last.out[i].SubTitle = ConnectivityHint)
          => TransportFailure(last)

\* an API error with status 500 got no hint
C19_WitnessOtherStatus ==
    /\ EndedWithApiError
    /\ last.exc[1].status = Some(500)
    /\ last.out[1].SubTitle = ""

\* an add naming a list that does not exist got the connectivity hint although
\* the lists were fetched without failure
C19_WitnessHintWithoutFailure ==
    /\ Handled_as("add")
    /\ EndedWithApiError
    /\ last.calls = <<"GET /lists">>
    /\ last.replies[1].kind = "ok"
    /\ last.out[1].SubTitle = ConnectivityHint

\* a connection failure got the "Network error" entry, without the hint
C19_WitnessNetworkError ==
    /\ last.op = "handle"
    /\ TransportFailure(last)
    /\ ~last.raised
    /\ last.out[1].Title = "Network error"
    /\ last.out[1].SubTitle # ConnectivityHint

-----------------------------------------------------------------------------
(* VikunjaFlowPlugin.query called by several host threads on one plugin     *)
(* instance (plugin.py).  A thread is at "idle" outside query, and inside    *)
(* it at the line it executes next: "L28" the cancel of the token found,    *)
(* "L29" the creation and publication of its own token, "L31" the call of   *)
(* the router, "L33" the reset of _active_token.  What the router does to   *)
(* the stores while a thread is at L31 is the subject of Spec; here it is   *)
(* one step that leaves the plugin's fields alone.                          *)

RouterUnchanged == UNCHANGED <<profiles, active, secrets, disk, cache, now, last, hist>>

At(t, pc) == threads[t].pc = pc

Goto(t, pc) == threads' = [threads EXCEPT ![t].pc = pc]

\* line 27: if self._active_token
QueryTest(t) ==
    /\ At(t, "idle")
    /\ Len(cancel_tokens) < MaxQueries
    /\ threads' = [threads EXCEPT ![t] = [pc |-> IF IsNone(_active_token) THEN "L29" ELSE "L28",
                                           token |-> None, exc |-> None]]
    /\ UNCHANGED <<_active_token, cancel_tokens>>
    /\ RouterUnchanged

\* line 28: self._active_token.cancel(), a second read of the field: None has
\* no cancel and the call raises AttributeError out of query
QueryCancel(t) ==
    /\ At(t, "L28")
    /\ IF IsNone(_active_token)
       THEN /\ threads' = [threads EXCEPT ![t].pc = "idle",
                                          ![t].exc = Some(Exc("AttributeError", "cancel"))]
            /\ UNCHANGED cancel_tokens
       ELSE /\ cancel_tokens' = [cancel_tokens EXCEPT ![_active_token[1]]._cancelled = TRUE]
            /\ Goto(t, "L29")
    /\ UNCHANGED _active_token
    /\ RouterUnchanged

\* lines 29-30: token = CancelToken(); self._active_token = token
QueryNewToken(t) ==
    /\ At(t, "L29")
    /\ cancel_tokens' = Append(cancel_tokens, [_cancelled |-> FALSE])
    /\ _active_token' = Some(Len(cancel_tokens) + 1)
    /\ threads' = [threads EXCEPT ![t].pc = "L31", ![t].token = Some(Len(cancel_tokens) + 1)]
    /\ RouterUnchanged

\* line 31: self._router.handle(query, token) runs to its end
QueryHandle(t) ==
    /\ At(t, "L31")
    /\ Goto(t, "L33")
    /\ UNCHANGED <<_active_token, cancel_tokens>>
    /\ RouterUnchanged

\* lines 33-34: self._active_token = None; return results
QueryReturn(t) ==
    /\ At(t, "L33")
    /\ _active_token' = None
    /\ Goto(t, "idle")
    /\ UNCHANGED cancel_tokens
    /\ RouterUnchanged

InitPlugin ==
    /\ profiles = EmptyStore.profiles
    /\ active = EmptyStore.active
    /\ secrets = EmptyStore.secrets
    /\ disk = EmptyStore.disk
    /\ cache = <<>>
    /\ now = 0
    /\ hist = <<>>
    /\ last = NoOp
    /\ PluginIdle

NextPlugin ==
    \E t \in Threads :
        \/ QueryTest(t)
        \/ QueryCancel(t)
        \/ QueryNewToken(t)
        \/ QueryHandle(t)
        \/ QueryReturn(t)

SpecPlugin == InitPlugin /\ [][NextPlugin]_vars

\* the tokens whose query is inside the router and that nobody cancelled
LiveTokens ==
    {i \in 1..Len(cancel_tokens) :
        /\ ~cancel_tokens[i]._cancelled
        /\ \E t \in Threads : At(t, "L31") /\ threads[t].token = Some(i)}

\* C12: however the query calls of several threads on one plugin instance
\* interleave, every new query cancels the token of each earlier query still
\* running: at no time are two tokens both in flight and not cancelled.
C12_OneLiveToken == Cardinality(LiveTokens) <= 1

\* a query cancelled the token of the query before it, which is still running
C12_WitnessCancelled ==
    \E t \in Threads :
        /\ At(t, "L31")
        /\ cancel_tokens[threads[t].token[1]]._cancelled

\* a query found a token to cancel and lost it before the cancel
C12_WitnessAttributeError ==
    \E t \in Threads : threads[t].exc # None

-----------------------------------------------------------------------------
(* The follow-up query of a "show more" entry, as built by _find and _due   *)
(* for a command the parser produced, given back to the parser              *)

\* a store whose only profile is active and has its token
SignedInProfile ==
    [name |-> "w", base_url |-> "u", auth_method |-> "token", verify_tls |-> TRUE,
     default_list_id |-> Some(5), token |-> Some("t")]

SignedInStore == save_profile(EmptyStore, SignedInProfile, Some("t"), FALSE).st

\* the pages a command asks for
MaxPage == 9

\* find queries, by the terms the parser makes of them: one word, two words,
\* a quoted phrase with two spaces, an apostrophe, a double quote, an empty
\* word, a word that looks like an option
FollowUpFindQueries ==
    {"find a", "find overdue invoices", "find A  b", "find \"a  b\"", "find it\\'s",
     "find 'say \"hi\"'", "find \"\"", "find x --Page", "find a\\ b", "find 'a b' c"}

FollowUpDueQueries ==
    {"due today", "due TODAY", "due tomorrow", "due week", "due Week --page 2"}

\* the AutoCompleteText of the "show more" entry among entries
FollowUpText(entries) ==
    entries[CHOOSE i \in 1..Len(entries) : entries[i].via = "show_more_result"].AutoCompleteText

\* the query the host hands to the plugin for a text typed after the action
\* keyword vik
WithoutKeyword(text) == IF StartsWith(text, "vik ") THEN SubSeq(text, 5, Len(text)) ELSE text

\* the command cmd on page p was answered with page p of p + 1 and gave r;
\* last keeps the follow-up text and what parse_query makes of it, as it is
\* and without the action keyword
FollowedUp(raw_query, cmd, r) ==
    /\ last' = [op |-> "follow_up", name |-> cmd.type, exc |-> r.exc, query |-> raw_query,
                cmd |-> cmd, out |-> r.ret,
                text |-> FollowUpText(r.ret),
                reparsed |-> parse_query(FollowUpText(r.ret)),
                reparsed_bare |-> parse_query(WithoutKeyword(FollowUpText(r.ret)))]
    /\ UNCHANGED <<profiles, active, secrets, disk, cache, now, hist>>
    /\ PluginUnchanged

FollowUpEnv(p) ==
    [DefaultEnv EXCEPT !.tasks = PageResponse(1, IntStr(p), IntStr(p + 1))]

FollowUpFound(raw_query, cmd, p) ==
    FollowedUp(raw_query, cmd, _find(Store, cache, cmd, FollowUpEnv(p)))

FollowUpFind ==
    \E raw_query \in FollowUpFindQueries, p \in 1..MaxPage :
        FollowUpFound(raw_query, [parse_query(raw_query).cmd EXCEPT !.page = p], p)

FollowUpDued(raw_query, cmd, p) ==
    FollowedUp(raw_query, cmd, _due(Store, cache, cmd, FollowUpEnv(p)))

FollowUpDue ==
    \E raw_query \in FollowUpDueQueries, p \in 1..MaxPage :
        FollowUpDued(raw_query, [parse_query(raw_query).cmd EXCEPT !.page = p], p)

InitFollowUp ==
    /\ profiles = SignedInStore.profiles
    /\ active = SignedInStore.active
    /\ secrets = SignedInStore.secrets
    /\ disk = SignedInStore.disk
    /\ cache = <<>>
    /\ now = 0
    /\ hist = <<>>
    /\ last = NoOp
    /\ PluginIdle

NextFollowUp == FollowUpFind \/ FollowUpDue

SpecFollowUp == InitFollowUp /\ [][NextFollowUp]_vars

\* the command of l on the page after the one it asked for
NextPageCommand(l) == Parsed([l.cmd EXCEPT !.page = l.cmd.page + 1])

\* C14: the follow-up text of every "show more" entry re-enters the parser as
\* the same command on the next page: for a find with terms T on page p a find
\* with terms T and page p + 1, for a due with period P on page p a due with
\* period P and page p + 1, whether the text is parsed as it is or without
\* its action keyword.
C14_FollowUpReparses ==
    last.op = "follow_up" =>
        \/ last.reparsed = NextPageCommand(last)
        \/ last.reparsed_bare = NextPageCommand(last)

\* the same for the text exactly as emitted
C14_FollowUpReparsesAsEmitted ==
    last.op = "follow_up" => last.reparsed = NextPageCommand(last)

\* the follow-up of a one-word find comes back as that find once the action
\* keyword is taken off
C14_WitnessPlain ==
    /\ last.op = "follow_up"
    /\ last.name = "find"
    /\ last.cmd.terms = "a"
    /\ last.cmd.page = MaxPage
    /\ last.reparsed_bare = NextPageCommand(last)

\* the follow-up of a find whose terms hold an apostrophe cannot be parsed
C14_WitnessUnparsable ==
    /\ last.op = "follow_up"
    /\ last.reparsed_bare.exc = Some("ValueError")

-----------------------------------------------------------------------------
(* add --list NAME against every set of lists the server may hold.  The     *)
(* name and the lists are chosen at the start; the one step is the add.    *)

\* the lists of the server: titles that are equal but for case, titles that
\* contain one another, unrelated titles.  No id is the default list's.
ListPool ==
    {Inbox, Work, [id |-> 3, title |-> "INBOX"], [id |-> 4, title |-> "Inbox 2"],
     [id |-> 6, title |-> "Homework"], [id |-> 7, title |-> "in"]}

ResolveNames == {"inbox", "WORK", "In", "nosuch"}

\* the lists of S in the order of their ids
RECURSIVE ById(_)
ById(S) ==
    IF S = {} THEN <<>>
    ELSE LET first == CHOOSE l \in S : \A o \in S : l.id <= o.id
         IN  <<first>> \o ById(S \ {first})

InitResolve ==
    /\ profiles = SignedInStore.profiles
    /\ active = SignedInStore.active
    /\ secrets = SignedInStore.secrets
    /\ disk = SignedInStore.disk
    /\ cache = <<>>
    /\ now = 0
    /\ hist = <<>>
    /\ \E name \in ResolveNames, S \in SUBSET ListPool :
          last = [op |-> "typed", name |-> name, exc |-> None, lists |-> ById(S)]
    /\ PluginIdle

\* the add gave r
ResolvedTo(r) ==
    /\ SetStore(r.store)
    /\ cache' = r.cache
    /\ last' = [op |-> "add", name |-> last.name, exc |-> r.exc, lists |-> last.lists,
                calls |-> r.calls, out |-> r.ret]
    /\ UNCHANGED <<now, hist>>
    /\ PluginUnchanged

ResolveAdd ==
    /\ last.op = "typed"
    /\ ResolvedTo(_add(Store, cache, now,
                       [type |-> "add", title |-> "Milk", list_name |-> Some(last.name),
                        due |-> None, description |-> None],
                       [DefaultEnv EXCEPT !.lists = OkResponse(last.lists)]))

NextResolve == ResolveAdd

SpecResolve == InitResolve /\ [][NextResolve]_vars

\* the lists of ls whose title is name but for case, and those whose title
\* contains name but for case
TitleEquals(ls, name) == SelectSeq(ls, LAMBDA l : Lower(l.title) = Lower(name))

TitleContains(ls, name) == SelectSeq(ls, LAMBDA l : Contains(Lower(l.title), Lower(name)))

CreateIn(list_id) == "POST /lists/" \o IntStr(list_id) \o "/tasks"

\* no request that creates a task is among calls
NoCreate(calls) == \A i \in 1..Len(calls) : ~StartsWith(calls[i], "POST /lists/")

\* l failed with an API error without creating a task
RefusedByApiError(l) ==
    /\ ~IsNone(l.exc)
    /\ l.exc[1].cls = "VikunjaApiError"
    /\ NoCreate(l.calls)

\* C18: add --list NAME creates the task in the one list whose title equals
\* NAME but for case, however many other titles contain NAME; with no such
\* title, in the single list whose title contains NAME; with no match it fails
\* with an API error whose message contains "not found", with more than one
\* match with an API error; in both failures no create request is sent, to
\* the default list or any other.
C18_ListResolution ==
    last.op = "add" =>
        LET equal == TitleEquals(last.lists, last.name)
            containing == TitleContains(last.lists, last.name)
        IN  IF Len(equal) = 1
            THEN IsNone(last.exc) /\ Sent(last.calls, CreateIn(equal[1].id))
            ELSE IF Len(equal) = 0 /\ Len(containing) = 1
            THEN IsNone(last.exc) /\ Sent(last.calls, CreateIn(containing[1].id))
            ELSE IF Len(equal) = 0 /\ Len(containing) = 0
            THEN /\ RefusedByApiError(last)
                 /\ Contains(last.exc[1].msg, "not found")
            ELSE RefusedByApiError(last)

\* C18 witness: one title equals the name and two more contain it; the task
\* went to the list of the equal title.
C18_Witness ==
    /\ last.op = "add"
    /\ Len(TitleEquals(last.lists, last.name)) = 1
    /\ Len(TitleContains(last.lists, last.name)) = 3
    /\ Sent(last.calls, CreateIn(TitleEquals(last.lists, last.name)[1].id))

\* no title matches and the default list got no task
C18_WitnessNotFound ==
    /\ last.op = "add"
    /\ Len(last.lists) > 0
    /\ Len(TitleContains(last.lists, last.name)) = 0
    /\ RefusedByApiError(last)

\* two titles equal the name but for case
C18_WitnessTwoEqual ==
    /\ last.op = "add"
    /\ Len(TitleEquals(last.lists, last.name)) = 2
    /\ RefusedByApiError(last)

-----------------------------------------------------------------------------
(* Direct calls of the client's profile-scoped methods.  The method, the    *)
(* profile's token and the transport's answer are chosen at the start; the *)
(* one step is the call.                                                    *)

ClientMethods ==
    {"verify_token", "get_lists", "create_task", "search_tasks", "due_tasks",
     "complete_task", "get_task"}

\* a token that is absent, empty or present
ClientTokens == {None, Some(""), Some("t")}

\* the answers of the transport to a request of method m: the JSON list or
\* object the method expects, no body, and the failures
ClientResponses(m) ==
    {IF m \in {"get_lists", "search_tasks", "due_tasks"}
     THEN OkResponse(<<TaskJson>>) ELSE OkResponse(TaskJson),
     EmptyBody, Http(500, "Server error"), UrlError("ConnectionRefusedError"), Timeout, NotJson}

InitClient ==
    /\ profiles = EmptyStore.profiles
    /\ active = EmptyStore.active
    /\ secrets = EmptyStore.secrets
    /\ disk = EmptyStore.disk
    /\ cache = <<>>
    /\ now = 0
    /\ hist = <<>>
    /\ \E m \in ClientMethods, token \in ClientTokens :
        \E resp \in ClientResponses(m) :
          last = [op |-> "ready", name |-> m, exc |-> None,
                  profile |-> [SignedInProfile EXCEPT !.token = token], resp |-> resp]
    /\ PluginIdle

\* the method of last was called and gave r, [exc, ret, calls]
Called(r) ==
    /\ last' = [op |-> "client", name |-> last.name, exc |-> r.exc,
                profile |-> last.profile, resp |-> last.resp, ret |-> r.ret,
                calls |-> r.calls]
    /\ UNCHANGED <<profiles, active, secrets, disk, cache, now, hist>>
    /\ PluginUnchanged

Ready(m) == last.op = "ready" /\ last.name = m

CallVerifyToken ==
    Ready("verify_token") /\ Called(verify_token(last.profile, last.resp))

CallGetLists ==
    Ready("get_lists") /\ Called(get_lists(last.profile, last.resp))

CallCreateTask ==
    Ready("create_task") /\ Called(create_task(last.profile, 1, "Milk", None, None, last.resp))

CallSearchTasks ==
    Ready("search_tasks") /\ Called(search_tasks(last.profile, "a", 1, last.resp))

CallDueTasks ==
    Ready("due_tasks") /\ Called(due_tasks(last.profile, "today", 1, last.resp))

CallCompleteTask ==
    Ready("complete_task") /\ Called(complete_task(last.profile, 7, last.resp))

CallGetTask ==
    Ready("get_task") /\ Called(get_task(last.profile, 7, last.resp))

NextClient ==
    \/ CallVerifyToken
    \/ CallGetLists
    \/ CallCreateTask
    \/ CallSearchTasks
    \/ CallDueTasks
    \/ CallCompleteTask
    \/ CallGetTask

SpecClient == InitClient /\ [][NextClient]_vars

\* C20: every profile-scoped client method called with a profile whose token
\* is absent or empty fails with the API error, and no request is sent.
C20_TokenRequired ==
    (last.op = "client" /\ ~TruthyStr(last.profile.token)) =>
        /\ last.exc = Some(VikunjaApiError("Profile does not have an access token", None))
        /\ last.calls = <<>>

\* C20 witness: due_tasks was called with an empty token while the server was
\* ready to answer, and sent nothing.
C20_Witness ==
    /\ last.op = "client"
    /\ last.name = "due_tasks"
    /\ last.profile.token = Some("")
    /\ last.resp.kind = "ok"
    /\ last.calls = <<>>

\* with a token the request is sent
C20_WitnessSent ==
    /\ last.op = "client"
    /\ last.name = "complete_task"
    /\ TruthyStr(last.profile.token)
    /\ last.calls = <<"PUT /tasks/7">>

\* the transport failed: the connection was refused or the answer timed out
TransportFailed(resp) == resp.kind \in {"urlerror", "timeout"}

\* no method sends more than one request in one call
C21_AtMostOneRequest ==
    last.op = "client" => Len(last.calls) <= 1

\* an HTTP error response becomes the API error with the numeric status
C21_HttpErrorTyped ==
    (last.op = "client" /\ TruthyStr(last.profile.token) /\ last.resp.kind = "http") =>
        last.exc = Some(VikunjaApiError(last.resp.msg, Some(last.resp.status)))

\* C21: every client operation sends at most one request per call; when the
\* request fails at transport level (connection failure or timeout) the call
\* fails with the API error without a status code, and when the answer is
\* an HTTP error it fails with the API error carrying that status.
C21_TransportFailureTyped ==
    /\ C21_AtMostOneRequest
    /\ C21_HttpErrorTyped
    /\ (last.op = "client" /\ TruthyStr(last.profile.token) /\ TransportFailed(last.resp)) =>
           /\ ~IsNone(last.exc)
           /\ last.exc[1].cls = "VikunjaApiError"
           /\ IsNone(last.exc[1].status)

\* get_lists met a refused connection: one request, and the exception of
\* the call is urllib's URLError, not the API error
C21_WitnessUrlError ==
    /\ last.op = "client"
    /\ last.name = "get_lists"
    /\ last.resp = UrlError("ConnectionRefusedError")
    /\ last.calls = <<"GET /lists">>
    /\ last.exc = Some(Exc("URLError", "ConnectionRefusedError"))

\* complete_task timed out: the exception of the call is TimeoutError
C21_WitnessTimeout ==
    /\ last.op = "client"
    /\ last.name = "complete_task"
    /\ last.resp = Timeout
    /\ last.calls = <<"PUT /tasks/7">>
    /\ last.exc = Some(Exc("TimeoutError", "timed out"))

-----------------------------------------------------------------------------
(* Direct calls of parse_query.  The text is typed at the start: a keyword  *)
(* and argument words joined by single spaces, or one of the texts of       *)
(* OddTexts; the one step is the parse.  keyword and args remember the      *)
(* words the text was typed from.                                           *)

\* the most argument words typed after a keyword (after the profile for login)
MaxArgs == 3

Keywords == {"login", "use", "add", "find", "due", "lists", "done", "open"}

\* all sequences of at most n words of S
SeqsUpTo(S, n) == UNION {[1..k -> S] : k \in 0..n}

\* the words typed after each keyword
ArgWords(keyword) ==
    CASE keyword = "login" -> {"--token", "--URL", "--verify", "--user", "t", "no", "--bogus"}
      [] keyword = "use" -> {"w", "h", "--bogus"}
      [] keyword = "add" -> {"Milk", "--list", "In", "--bogus"}
      [] keyword = "find" -> {"a", "b", "--page", "3", "0", "-2", "--bogus"}
      [] keyword = "due" ->
            {"today", "WEEK", "Tomorrow", "month", "--page", "3", "0", "-2", "--bogus"}
      [] keyword = "lists" -> {"x", "--bogus"}
      [] keyword = "done" -> {"7", "x", "--bogus"}
      [] keyword = "open" -> {"7", "x", "--bogus"}

\* the argument sequences typed after each keyword; a login is typed with
\* no argument or with the profile name p and MaxArgs + 1 option words, a
\* find with MaxArgs + 1 words
TypedArgs(keyword) ==
    IF keyword = "login"
    THEN {<<>>} \cup {<<"p">> \o opts : opts \in SeqsUpTo(ArgWords(keyword), MaxArgs + 1)}
    ELSE IF keyword = "find" THEN SeqsUpTo(ArgWords(keyword), MaxArgs + 1)
    ELSE SeqsUpTo(ArgWords(keyword), MaxArgs)

\* texts that are not a keyword followed by plain words
OddTexts ==
    {"", "   ", "bogus x", "vik find a", "find \"a", "find it's", "use a\\", "LISTS",
     "  Find  \"a  b\" --page 2 ", "due 'to'day"}

Typed(keyword, args, raw) ==
    [op |-> "typed", keyword |-> keyword, args |-> args, raw |-> raw]

InitParser ==
    /\ profiles = EmptyStore.profiles
    /\ active = EmptyStore.active
    /\ secrets = EmptyStore.secrets
    /\ disk = EmptyStore.disk
    /\ cache = <<>>
    /\ now = 0
    /\ hist = <<>>
    /\ \/ \E keyword \in Keywords :
            \E args \in TypedArgs(keyword) :
               last = Typed(keyword, args, JoinSpace(<<keyword>> \o args))
       \/ \E raw \in OddTexts : last = Typed("", <<>>, raw)
    /\ PluginIdle

\* parse_query(raw) returned or raised
ParseQuery ==
    /\ last.op = "typed"
    /\ last' = [op |-> "parse_query", keyword |-> last.keyword, args |-> last.args,
                raw |-> last.raw, result |-> parse_query(last.raw)]
    /\ UNCHANGED <<profiles, active, secrets, disk, cache, now, hist>>
    /\ PluginUnchanged

NextParser == ParseQuery

SpecParser == InitParser /\ [][NextParser]_vars

\* the text typed after keyword was parsed
ParsedAs(keyword) == last.op = "parse_query" /\ last.keyword = keyword

\* the parse failed with ParseError
IsParseError(result) == result.exc = Some("ParseError")

\* the positions of the --page flags of args, of their values and of the
\* other words
PageFlags(args) == {i \in 1..Len(args) : args[i] = "--page"}

PageValues(args) == {i + 1 : i \in PageFlags(args)}

TermPositions(args) == (1..Len(args)) \ (PageFlags(args) \cup PageValues(args))

\* every --page of args is followed by an integer
PagesGiven(args) ==
    \A i \in PageFlags(args) : i < Len(args) /\ ~IsNone(ParseInt(args[i + 1]))

\* the words of args at the positions P, in order
WordsAt(args, P) ==
    LET n == Cardinality(P)
        at == CHOOSE f \in [1..n -> P] : \A a, b \in 1..n : a < b => f[a] < f[b]
    IN  [k \in 1..n |-> args[at[k]]]

\* the page the flags of args ask for: the integer after the last --page,
\* at least 1, and 1 without a flag
PageAsked(args) ==
    IF PageFlags(args) = {} THEN 1
    ELSE LET i == CHOOSE i \in PageFlags(args) : \A j \in PageFlags(args) : j <= i
             N == ParseInt(args[i + 1])[1]
         IN  IF N < 1 THEN 1 ELSE N

\* C22: for a find whose --page flags are each followed by an integer N, the
\* words that are neither --page nor its value are joined in order with
\* single spaces into terms and the page is N clamped to at least 1; a find
\* without such a word is a ParseError, also when --page N is given.
C22_FindParse ==
    (ParsedAs("find") /\ PagesGiven(last.args)) =>
        IF TermPositions(last.args) = {}
        THEN IsParseError(last.result)
        ELSE last.result =
                Parsed([type |-> "find",
                        terms |-> JoinSpace(WordsAt(last.args, TermPositions(last.args))),
                        page |-> PageAsked(last.args)])

\* C22 witness: find a b --page 3 gave terms "a b" and page 3
C22_Witness ==
    /\ ParsedAs("find")
    /\ last.args = <<"a", "b", "--page", "3">>
    /\ last.result = Parsed([type |-> "find", terms |-> "a b", page |-> 3])

\* find --page 3 is a ParseError
C22_WitnessPageOnly ==
    /\ ParsedAs("find")
    /\ last.args = <<"--page", "3">>
    /\ last.result = RaiseParseError("find expects search terms")

\* find b --page -2 a is page 1 of "b a"
C22_WitnessClamped ==
    /\ ParsedAs("find")
    /\ last.args = <<"b", "--page", "-2", "a">>
    /\ last.result = Parsed([type |-> "find", terms |-> "b a", page |-> 1])

\* the word names a period, whatever its case
IsPeriod(word) == Lower(word) \in {"today", "tomorrow", "week"}

\* C23: a due whose period is not today, tomorrow or week in any case is a
\* ParseError; a valid period followed by --page N gives page N for N >= 1
\* and page 1 for N < 1 (page 1 without --page); any other word after the
\* period is a ParseError.
C23_DueParse ==
    (ParsedAs("due") /\ Len(last.args) > 0) =>
        IF ~IsPeriod(last.args[1]) THEN IsParseError(last.result)
        ELSE PagesGiven(Tail(last.args)) =>
                IF TermPositions(Tail(last.args)) # {}
                THEN IsParseError(last.result)
                ELSE last.result =
                        Parsed([type |-> "due", period |-> Lower(last.args[1]),
                                page |-> PageAsked(Tail(last.args))])

\* C23 witness: due WEEK --page -2 gave page 1 of week
C23_Witness ==
    /\ ParsedAs("due")
    /\ last.args = <<"WEEK", "--page", "-2">>
    /\ last.result = Parsed([type |-> "due", period |-> "week", page |-> 1])

\* due month --page 3 is a ParseError
C23_WitnessBadPeriod ==
    /\ ParsedAs("due")
    /\ last.args = <<"month", "--page", "3">>
    /\ last.result = RaiseParseError("due period must be today, tomorrow, or week")

\* due today --bogus is a ParseError
C23_WitnessTrailing ==
    /\ ParsedAs("due")
    /\ last.args = <<"today", "--bogus">>
    /\ last.result = RaiseParseError("Unknown option for due: --bogus")

\* due today --page 3 is page 3
C23_WitnessPage ==
    /\ ParsedAs("due")
    /\ last.args = <<"today", "--page", "3">>
    /\ last.result = Parsed([type |-> "due", period |-> "today", page |-> 3])

\* the flags of login, by the field they set
LoginFlags ==
    [base_url |-> {"--url", "--base", "--base-url"},
     token |-> {"--token"},
     username |-> {"--username", "--user"},
     password |-> {"--password", "--pass"},
     verify_tls |-> {"--verify-tls", "--verify"},
     default_list |-> {"--default-list", "--list"}]

\* the fields that hold the word typed after their flag
TextFields == {"base_url", "token", "username", "password", "default_list"}

\* the words typed after the profile name
Options(args) == Tail(args)

\* a flag is read at every other word: the word after a flag is its value
FlagPositions(opts) == {i \in 1..Len(opts) : i % 2 = 1}

\* every word read as a flag is a flag of login
FlagsRecognised(opts) ==
    \A i \in FlagPositions(opts) : \E f \in DOMAIN LoginFlags : Lower(opts[i]) \in LoginFlags[f]

\* the word after the last flag of field, None when the flag is not given
Given(opts, field) ==
    LET at == {i \in FlagPositions(opts) : Lower(opts[i]) \in LoginFlags[field]}
    IN  IF at = {} \/ \E i \in at : i = Len(opts) THEN None
        ELSE Some(opts[(CHOOSE i \in at : \A j \in at : j <= i) + 1])

\* the words that name a boolean, and the boolean they name
TrueWords == {"true", "1", "yes", "y", "on"}

FalseWords == {"false", "0", "no", "n", "off"}

\* every value of --verify-tls names a boolean
VerifyWordsOk(opts) ==
    \A i \in FlagPositions(opts) :
        (Lower(opts[i]) \in LoginFlags.verify_tls /\ i < Len(opts)) =>
            Lower(opts[i + 1]) \in TrueWords \cup FalseWords

\* the text fields of the parsed login are the words after their flags
TextFieldsAsGiven(cmd, args) ==
    /\ cmd.profile = args[1]
    /\ \A f \in TextFields : cmd[f] = Given(Options(args), f)

\* C24 as stated: every recognised flag, --verify-tls included, takes the
\* one word after it (so the parse succeeds whatever that word is), a flag
\* that is the last word is a ParseError, and a field whose flag is not
\* given is None.
C24_LoginParse_AsStated ==
    (ParsedAs("login") /\ Len(last.args) > 0 /\ FlagsRecognised(Options(last.args))) =>
        IF Len(Options(last.args)) % 2 = 1 THEN IsParseError(last.result)
        ELSE /\ IsNone(last.result.exc)
             /\ TextFieldsAsGiven(last.result.cmd, last.args)
             /\ IsNone(Given(Options(last.args), "verify_tls")) <=>
                    IsNone(last.result.cmd.verify_tls)

\* C24: in a login whose flags are all recognised, a flag that is the last
\* word is a ParseError and so is a --verify-tls whose word names no
\* boolean; otherwise each text flag sets its field to exactly the word
\* after it, --verify-tls sets verify_tls to the boolean its word names, and
\* every field whose flag is not given is None.
C24_LoginParse ==
    (ParsedAs("login") /\ Len(last.args) > 0 /\ FlagsRecognised(Options(last.args))) =>
        IF Len(Options(last.args)) % 2 = 1 \/ ~VerifyWordsOk(Options(last.args))
        THEN IsParseError(last.result)
        ELSE /\ IsNone(last.result.exc)
             /\ last.result.cmd.type = "login"
             /\ TextFieldsAsGiven(last.result.cmd, last.args)
             /\ last.result.cmd.verify_tls =
                   Bind(Given(Options(last.args), "verify_tls"), LAMBDA word :
                        IF IsNone(word) THEN None ELSE Some(Lower(word[1]) \in TrueWords))

\* C24 witness: login p --token t --URL no gave token t, base_url no and
\* every other field unset
C24_Witness ==
    /\ ParsedAs("login")
    /\ last.args = <<"p", "--token", "t", "--URL", "no">>
    /\ last.result =
          Parsed([type |-> "login", profile |-> "p", base_url |-> Some("no"),
                  token |-> Some("t"), username |-> None, password |-> None,
                  verify_tls |-> None, default_list |-> None])

\* a flag as the last word
C24_WitnessFlagLast ==
    /\ ParsedAs("login")
    /\ last.args = <<"p", "--user", "t", "--token">>
    /\ last.result = RaiseParseError("Option --token expects a value")

\* --verify followed by a word that names no boolean
C24_WitnessNotBoolean ==
    /\ ParsedAs("login")
    /\ last.args = <<"p", "--verify", "t">>
    /\ last.result = RaiseParseError("Invalid boolean value: t")

\* --verify no sets verify_tls to false
C24_WitnessBoolean ==
    /\ ParsedAs("login")
    /\ last.args = <<"p", "--verify", "no">>
    /\ IsNone(last.result.exc)
    /\ last.result.cmd.verify_tls = Some(FALSE)

\* the option names the grammar of each keyword documents
DocumentedOptions(keyword) ==
    CASE keyword = "login" -> UNION {LoginFlags[f] : f \in DOMAIN LoginFlags}
      [] keyword = "add" -> {"--list", "--due", "--desc"}
      [] keyword \in {"find", "due"} -> {"--page"}
      [] OTHER -> {}

\* the word looks like an option and is none of the keyword's options
UnknownOption(keyword, word) ==
    StartsWith(word, "--") /\ Lower(word) \notin DocumentedOptions(keyword)

\* C25: for every command keyword, a typed word that starts with -- and is
\* not one of the keyword's documented options makes the parse fail with a
\* ParseError whose message names that word.
C25_UnknownOptionRejected ==
    \A keyword \in Keywords :
        (ParsedAs(keyword) /\ \E i \in 1..Len(last.args) : UnknownOption(keyword, last.args[i]))
        => /\ IsParseError(last.result)
           /\ \E i \in 1..Len(last.args) :
                 /\ UnknownOption(keyword, last.args[i])
                 /\ Contains(last.result.msg, last.args[i])

\* find a --bogus searches for "a --bogus"
C25_WitnessFindTerm ==
    /\ ParsedAs("find")
    /\ last.args = <<"a", "--bogus">>
    /\ last.result = Parsed([type |-> "find", terms |-> "a --bogus", page |-> 1])

\* lists --bogus is the lists command
C25_WitnessListsIgnored ==
    /\ ParsedAs("lists")
    /\ last.args = <<"--bogus">>
    /\ last.result = Parsed([type |-> "lists"])

\* use --bogus selects the profile named --bogus
C25_WitnessUseProfile ==
    /\ ParsedAs("use")
    /\ last.args = <<"--bogus">>
    /\ last.result = Parsed([type |-> "use", profile |-> "--bogus"])

\* done 7 --bogus completes task 7
C25_WitnessDoneIgnored ==
    /\ ParsedAs("done")
    /\ last.args = <<"7", "--bogus">>
    /\ last.result = Parsed([type |-> "done", task_id |-> 7])

\* add Milk --bogus is rejected and the message names the word
C25_WitnessAddRejected ==
    /\ ParsedAs("add")
    /\ last.args = <<"Milk", "--bogus">>
    /\ last.result = RaiseParseError("Unknown option for add: --bogus")

\* C26: for every text, parse_query returns a command or fails with
\* ParseError, and fails with no other kind of error.
C26_ParseTotal ==
    last.op = "parse_query" =>
        \/ IsNone(last.result.exc) /\ "cmd" \in DOMAIN last.result
        \/ IsParseError(last.result)

\* the empty text, blanks and an unknown first word are the help command
C26_HelpFallback ==
    (last.op = "parse_query" /\ last.raw \in {"", "   ", "bogus x", "vik find a"}) =>
        last.result = Parsed(HelpCommand)

\* a text with an unbalanced quote fails with ValueError
C26_WitnessUnbalancedQuote ==
    /\ last.op = "parse_query"
    /\ last.raw = "find it's"
    /\ last.result.exc = Some("ValueError")

\* a text that ends in a backslash fails with ValueError
C26_WitnessTrailingBackslash ==
    /\ last.op = "parse_query"
    /\ last.raw = "use a\\"
    /\ last.result.exc = Some("ValueError")

\* blanks are the help command
C26_WitnessBlank ==
    /\ last.op = "parse_query"
    /\ last.raw = "   "
    /\ last.result = Parsed(HelpCommand)

\* C27: use followed by exactly one word is the Use command for that
\* profile; use followed by no word or by more than one word is a
\* ParseError.
C27_UseExactlyOne ==
    ParsedAs("use") =>
        IF Len(last.args) = 1
        THEN last.result = Parsed([type |-> "use", profile |-> last.args[1]])
        ELSE IsParseError(last.result)

\* the part of C27 for at most one word
C27_UseAtMostOne ==
    (ParsedAs("use") /\ Len(last.args) <= 1) =>
        IF Len(last.args) = 1
        THEN last.result = Parsed([type |-> "use", profile |-> last.args[1]])
        ELSE last.result = RaiseParseError("use expects a profile name")

\* use w h selects w and drops h
C27_WitnessTwoWords ==
    /\ ParsedAs("use")
    /\ last.args = <<"w", "h">>
    /\ last.result = Parsed([type |-> "use", profile |-> "w"])

\* use alone is a ParseError
C27_WitnessNoWord ==
    /\ ParsedAs("use")
    /\ last.args = <<>>
    /\ last.result = RaiseParseError("use expects a profile name")

-----------------------------------------------------------------------------
(* Logins by their credentials.  The router starts empty or with the        *)
(* profile w signed in, active and its lists cached; every step is one      *)
(* handle of a login of CredentialQueries.                                  *)

\* the cache after the lists of w were fetched at time 0
ListsCached == TTLCache_set(<<>>, "w", <<Inbox>>, 0).cache

InitCredentials ==
    /\ \E st \in {EmptyStore, SignedInStore} :
          /\ profiles = st.profiles
          /\ active = st.active
          /\ secrets = st.secrets
          /\ disk = st.disk
          /\ cache = IF st = EmptyStore THEN <<>> ELSE ListsCached
    /\ now = 0
    /\ hist = <<>>
    /\ last = NoOp
    /\ PluginIdle

CredentialLogin ==
    \E q \in CredentialQueries, l \in LoginResponses,
       u \in {OkResponse([id |-> 1]), Http(401, "Unauthorized")}, f \in BOOLEAN :
        Handle(q, [DefaultEnv EXCEPT !.login = l, !.user = u, !.secretFails = f])

NextCredentials == CredentialLogin

SpecCredentials == InitCredentials /\ [][NextCredentials]_vars

\* the credentials the login l gave: a value that is not empty
GaveUsername(l) == TruthyStr(l.cmd[1].username)

GavePassword(l) == TruthyStr(l.cmd[1].password)

GaveToken(l) == TruthyStr(l.cmd[1].token)

\* l is a login that gave exactly one of user name and password
OneOfTwo(l) ==
    /\ l.op = "handle" /\ l.name = "login"
    /\ GaveUsername(l) # GavePassword(l)

\* l is a login that gave no user name, no password and no token
NoCredential(l) ==
    /\ l.op = "handle" /\ l.name = "login"
    /\ ~GaveUsername(l) /\ ~GavePassword(l) /\ ~GaveToken(l)

\* l is a login that gave both and whose login call and token check succeeded
BothAndSaved(l) ==
    /\ l.op = "handle" /\ l.name = "login"
    /\ GaveUsername(l) /\ GavePassword(l)
    /\ IsNone(l.exc)

\* C28: a login that gives exactly one of user name and password fails, also
\* with --token, and a login that gives no user name, password or token
\* fails, also for a known profile with a stored token; both send no request
\* and leave the profile set, the secret store, the persisted document, the
\* active pointer and the list cache unchanged.  A login that gives both and
\* succeeds sent POST /auth/login and then GET /user, saved the token of the
\* login answer, whatever --token said, and saved auth_method "login".
C28_LoginCredentialRules ==
    [][/\ (OneOfTwo(last') \/ NoCredential(last')) =>
            /\ ~IsNone(last'.exc)
            /\ last'.exc[1].cls = "ParseError"
            /\ last'.calls = <<>>
            /\ UNCHANGED <<profiles, active, secrets, disk, cache>>
       /\ BothAndSaved(last') =>
            /\ last'.calls = <<"POST /auth/login", "GET /user">>
            /\ get_secret(Store', _credential_key(last'.cmd[1].profile)) =
                  JsonGet(_read_json(ReplyTo(last', "POST /auth/login")).data, "token")
            /\ DictGet(profiles', last'.cmd[1].profile)[1].auth_method = "login"
            /\ DictGet(disk'.profiles, last'.cmd[1].profile)[1].auth_method = "login"]_vars

\* C28 witness: the known profile w, signed in with a stored token and its
\* lists cached, was given a user name and --token but no password
C28_Witness ==
    /\ OneOfTwo(last)
    /\ last.query = "login w --user x --token t"
    /\ last.exc = Some(ParseError("login requires both --username and --password"))
    /\ get_secret(Store, _credential_key("w")) = Some("t")
    /\ DictHas(cache, "w")

\* login w with nothing else, while w has a stored token
C28_WitnessNoCredential ==
    /\ NoCredential(last)
    /\ last.query = "login w"
    /\ last.exc = Some(ParseError("login requires either --token or username/password"))
    /\ get_secret(Store, _credential_key("w")) = Some("t")

\* both and --token t: the minted token m is the one saved
C28_WitnessMinted ==
    /\ BothAndSaved(last)
    /\ last.query = "login w --user x --pass y --token t"
    /\ get_secret(Store, _credential_key("w")) = Some("m")
    /\ ~DictHas(cache, "w")

\* an empty user name and an empty password count as not given: the --token
\* value is checked and saved
C28_WitnessEmptyPair ==
    /\ last.op = "handle"
    /\ last.query = "login w --token t --user \"\" --pass \"\""
    /\ IsNone(last.exc)
    /\ last.calls = <<"GET /user">>
    /\ DictGet(profiles, "w")[1].auth_method = "token"

-----------------------------------------------------------------------------
(* save_profile when the secret store fails, under SpecStore *)

\* l is a save_profile that raised because the secret store refused the token
SaveFailed(l) == l.op = "save_profile" /\ ~IsNone(l.exc)

\* C29: a save_profile whose write to the secret store raises leaves the
\* in-memory profile set and the active pointer as they were before the call.
C29_SaveAllOrNothing ==
    [][SaveFailed(last') => UNCHANGED <<profiles, active>>]_vars

\* the part of C29 that holds: a failed save_profile leaves the active
\* pointer, the secret store and the persisted document as they were
C29_FailedSaveKeepsRest ==
    [][SaveFailed(last') => UNCHANGED <<active, secrets, disk>>]_vars

\* a save_profile failed and the profile it named is in the profile set but
\* not in the persisted document and has no secret
C29_WitnessHalfSaved ==
    /\ SaveFailed(last)
    /\ DictHas(profiles, last.name)
    /\ ~DictHas(disk.profiles, last.name)
    /\ IsNone(get_secret(Store, _credential_key(last.name)))

\* a get_profile that follows returns the profile that failed to save: it is
\* in the profile set although no successful call has persisted it
C29_WitnessGetSeesIt ==
    /\ last.op = "get_profile"
    /\ IsNone(last.exc)
    /\ ~DictHas(disk.profiles, last.name)

-----------------------------------------------------------------------------
(* The list cache and the fetches that fill it.  hist collects, per profile *)
(* name, the lists of every get_lists call that returned while the token of *)
(* its command was not cancelled: the fetch of a lists command, and the     *)
(* fetch of an add that resolves a list name (an add has no token to        *)
(* cancel).                                                                 *)

\* the answers to GET /lists: two different lists of lists, and a failure
FetchResponses ==
    {OkResponse(<<Inbox>>), OkResponse(<<Inbox, Work>>), Timeout}

\* the pairs of a profile name and the lists of an answer, in a fixed order
FetchPairs ==
    <<[name |-> "w", value |-> <<Inbox>>], [name |-> "w", value |-> <<Inbox, Work>>],
      [name |-> "h", value |-> <<Inbox>>], [name |-> "h", value |-> <<Inbox, Work>>]>>

\* the pair is one of h
Noted(h, pair) == \E i \in 1..Len(h) : h[i] = pair

\* hist after handle gave r under env
FetchedLists(env, r) ==
    IF IsNone(r.cmd) \/ ~Sent(r.calls, "GET /lists") THEN hist
    ELSE Bind(get_lists(ActiveProfile(Store).ret[1], env.lists), LAMBDA got :
         IF IsNone(got.exc) /\ (r.cmd[1].type = "lists" => env.cancel = "never")
         THEN SelectSeq(FetchPairs, LAMBDA pair :
                  Noted(hist, pair) \/ pair = [name |-> active[1], value |-> got.ret[1]])
         ELSE hist)

Fetched(raw_query, env, r) == Handled(raw_query, env, r, FetchedLists(env, r))

Fetching(raw_query, env) ==
    Fetched(raw_query, env, handle(Store, cache, now, raw_query, env))

InitFetch ==
    /\ profiles = EmptyStore.profiles
    /\ active = EmptyStore.active
    /\ secrets = EmptyStore.secrets
    /\ disk = EmptyStore.disk
    /\ cache = <<>>
    /\ now = 0
    /\ hist = <<>>
    /\ last = NoOp
    /\ PluginIdle

FetchLogin == \E q \in CacheLoginQueries : Fetching(q, DefaultEnv)

FetchUse == \E q \in {"use w", "use h"} : Fetching(q, DefaultEnv)

FetchLists ==
    \E l \in FetchResponses, k \in CancelTimes :
        Fetching("lists", [DefaultEnv EXCEPT !.lists = l, !.cancel = k])

FetchAdd ==
    \E x \in {OkResponse(TaskJson), UrlError("ConnectionRefusedError")} :
        Fetching("add Milk --list inbox",
                 [DefaultEnv EXCEPT !.lists = OkResponse(<<Inbox, Work>>), !.task = x])

NextFetch == FetchLogin \/ FetchUse \/ FetchLists \/ FetchAdd \/ Tick

SpecFetch == InitFetch /\ [][NextFetch]_vars

\* every cache entry holds lists that a get_lists call for the same profile
\* name gave while its token was not cancelled (the cache starts empty)
EntriesWereFetched ==
    \A i \in 1..Len(cache) :
        Noted(hist, [name |-> cache[i].key, value |-> cache[i].val.value])

\* the next step is a lists command for an active profile whose token was
\* cancelled, before or after the network call, or whose fetch raised
ListsCancelledOrFailed ==
    /\ last'.op = "handle" /\ last'.name = "lists"
    /\ TruthyStr(active)
    /\ \/ last'.cancel \in {"before", "after"}
       \/ ~IsNone(last'.exc) /\ last'.calls = <<"GET /lists">>

\* the entry of the cache is past its expiry time
Expired(entry) == entry.val.expires_at < now

\* C30 as stated: every cache entry holds lists a completed, uncancelled
\* get_lists call gave for the same profile name, and a lists command that
\* is cancelled or whose fetch raised leaves the cache exactly as it was.
C30_CacheOnlyFromFetches_AsStated ==
    [][/\ EntriesWereFetched'
       /\ ListsCancelledOrFailed => UNCHANGED cache]_vars

\* C30: every cache entry holds lists a completed, uncancelled get_lists
\* call gave for the same profile name, and a lists command that is
\* cancelled or whose fetch raised adds no entry and changes none: it
\* leaves the cache as it was but for the active profile's entry when that
\* entry had expired, which the lookup drops.
C30_CacheOnlyFromFetches ==
    [][/\ EntriesWereFetched'
       /\ ListsCancelledOrFailed =>
            /\ \A i \in 1..Len(cache') : \E j \in 1..Len(cache) : cache'[i] = cache[j]
            /\ \A j \in 1..Len(cache) :
                  (\A i \in 1..Len(cache') : cache'[i] # cache[j]) =>
                      /\ cache[j].key = active[1]
                      /\ Expired(cache[j])]_vars

\* C30 witness: a lists command was cancelled after its request had been
\* answered with lists, while another profile's lists were cached: the
\* active profile has no entry
C30_Witness ==
    /\ Handled_as("lists")
    /\ TruthyStr(active)
    /\ last.cancel = "after"
    /\ last.calls = <<"GET /lists">>
    /\ last.replies[1].kind = "ok"
    /\ Len(cache) = 1
    /\ ~DictHas(cache, active[1])

\* a lists command was cancelled before its request while the active
\* profile's entry had expired: the entry is gone
C30_WitnessExpiredDropped ==
    /\ Handled_as("lists")
    /\ TruthyStr(active)
    /\ last.cancel = "before"
    /\ last.calls = <<>>
    /\ active[1] \in last.before.cached
    /\ ~DictHas(cache, active[1])

\* the fetch of a lists command raised and the cache holds no entry for the
\* active profile
C30_WitnessFetchRaised ==
    /\ Handled_as("lists")
    /\ TruthyStr(active)
    /\ last.cancel = "never"
    /\ last.calls = <<"GET /lists">>
    /\ last.exc = Some(Exc("TimeoutError", "timed out"))
    /\ ~DictHas(cache, active[1])

\* an add that resolved a list name left the lists it fetched in the cache
\* when the creation failed
C30_WitnessFilledByAdd ==
    /\ Handled_as("add")
    /\ TruthyStr(active)
    /\ ~IsNone(last.exc)
    /\ last.calls = <<"GET /lists", "POST /lists/1/tasks">>
    /\ DictHas(cache, active[1])

-----------------------------------------------------------------------------
(* Checks of the string helpers on concrete cases *)

StringHelpersOk ==
    /\ ShlexSplit("find  a b") = [ok |-> TRUE, tokens |-> <<"find", "a", "b">>]
    /\ ShlexSplit("add \"Buy milk\" --list In") =
          [ok |-> TRUE, tokens |-> <<"add", "Buy milk", "--list", "In">>]
    /\ ShlexSplit("use \"\"") = [ok |-> TRUE, tokens |-> <<"use", "">>]
    /\ ShlexSplit("find \"abc") = [ok |-> FALSE, tokens |-> <<>>]
    /\ ShlexSplit("find a\\") = [ok |-> FALSE, tokens |-> <<>>]
    /\ ShlexSplit("a'b c'd") = [ok |-> TRUE, tokens |-> <<"ab cd">>]
    /\ ShlexSplit("\"a\\\"b\\c\"") = [ok |-> TRUE, tokens |-> <<"a\"b\\c">>]
    /\ Lower("LoGin") = "login"
    /\ Lower("--URL") = "--url"
    /\ Strip("  a b ") = "a b"
    /\ Strip(" \t ") = ""
    /\ ShlexSplit("a \\ b") = [ok |-> TRUE, tokens |-> <<"a", " b">>]
    /\ ShlexSplit("  ") = [ok |-> TRUE, tokens |-> <<>>]
    /\ ParseInt("12") = Some(12)
    /\ ParseInt("-3") = Some(-3)
    /\ ParseInt(" 7 ") = Some(7)
    /\ ParseInt("") = None
    /\ ParseInt("1x") = None
    /\ ParseInt("-") = None
    /\ IntStr(25) = "25"
    /\ JoinSpace(<<"a", "b c", "d">>) = "a b c d"
    /\ Contains("Inbox", "box")
    /\ ~Contains("Inbox", "boxx")
    /\ Contains("ab", "")
    /\ RStripSlash("g//") = "g"

ParserOk ==
    /\ parse_query("") = Parsed(HelpCommand)
    /\ parse_query("   ") = Parsed(HelpCommand)
    /\ parse_query("vik find x") = Parsed(HelpCommand)
    /\ parse_query("login home --url https://vik.example --token abc").cmd =
          [type |-> "login", profile |-> "home", base_url |-> Some("https://vik.example"),
           token |-> Some("abc"), username |-> None, password |-> None,
           verify_tls |-> None, default_list |-> None]
    /\ parse_query("find invoices overdue --page 3").cmd =
          [type |-> "find", terms |-> "invoices overdue", page |-> 3]
    /\ parse_query("due week --page 0").cmd = [type |-> "due", period |-> "week", page |-> 1]
    /\ parse_query("find --page 2").exc = Some("ParseError")
    /\ parse_query("find a --bogus").cmd = [type |-> "find", terms |-> "a --bogus", page |-> 1]
    /\ parse_query("use a b").cmd = [type |-> "use", profile |-> "a"]
    /\ parse_query("done 7 x").cmd = [type |-> "done", task_id |-> 7]
    /\ parse_query("done x").exc = Some("ParseError")
    /\ parse_query("find \"abc").exc = Some("ValueError")
    /\ parse_query("login w --token").msg = "Option --token expects a value"
    /\ parse_query("login w --VERIFY maybe").msg = "Invalid boolean value: maybe"
    /\ parse_query("add t --due") = RaiseParseError("Option --due expects a value")
    /\ parse_query("LISTS extra").cmd = [type |-> "lists"]

====
